---- MODULE Spec2Model ----
(***************************************************************************)
(* Topology construction pipeline of sequence/topology:                    *)
(*   Topology._run_pipeline and its stages (topology.py), the BSM and QLAN *)
(*   implementors (network_impls.py) and the node-type enumeration         *)
(*   (const_topo.py).                                                      *)
(*                                                                         *)
(* A configuration is a record of declaration lists.  Optional dictionary  *)
(* keys are modelled as sequences of length 0 (key absent / None) or 1.    *)
(* Node, channel and midpoint names are strings, and the midpoint name is  *)
(* built by string concatenation exactly as the f-string does.             *)
(***************************************************************************)
EXTENDS Integers, Sequences, FiniteSets, TLC

VARIABLES
    topo,               \* which Topology subclass is being constructed
    routing,            \* routing protocol class the endpoint nodes come with
    loaded,             \* the config as the caller or the file gave it
    config,             \* the working config dict (mutated in place)
    pc,                 \* stage of _run_pipeline about to run
    qi,                 \* index of the q_connect the _add_qconnections loop is at
    error,              \* exception that escaped the pipeline ("" if none)
    templates,          \* Topology.templates
    node_kwargs,        \* BsmNetworkImpl._node_kwargs
    tl,                 \* Topology.tl
    bsm_to_router_map,  \* Topology.bsm_to_router_map
    ordered_configs,    \* local ordered_configs of _add_nodes
    nodes,              \* Topology.nodes
    bsm_adjacency,      \* what add_bsm_node recorded on each endpoint
    qchannels,          \* Topology.qchannels
    cchannels,          \* Topology.cchannels
    forwarding,         \* per-node forwarding table (static routing)
    remote_memories,    \* QlanNetworkImpl._remote_memories
    link_cost,          \* per-node link_cost (distributed routing)
    rp_inits,           \* the calls of DistributedRoutingProtocol.init(), in order
    flat,               \* the legacy memo_* keys at the top level of the config
    hw,                 \* the memo_* attributes _add_qlan_parameters sets
    inferred,           \* the last call of a DQCNetTopo inference method
    classified,         \* const_topo's classification sets and its import check
    create              \* how the topology is constructed: from a file, or by
                        \* CreateTopo from argument objects the caller keeps

vars == <<topo, routing, loaded, config, pc, qi, error, templates, node_kwargs, tl,
          bsm_to_router_map, ordered_configs, nodes, bsm_adjacency,
          qchannels, cchannels, remote_memories, forwarding, link_cost,
          rp_inits, flat, hw, inferred, classified, create>>

----------------------------------------------------------------------------
(* Bounds of the explored configurations. *)

MaxQConn == 2
MaxCConn == 1
MaxNodes == 3
MaxRouteEdges == 3
MaxQChan == 2
MaxCChan == 1
MaxChain == 4
MaxDqcNodes == 2
MaxWires == 4
MaxMoved == 2

----------------------------------------------------------------------------
(* const_topo.py *)

QUANTUM_ROUTER == "QuantumRouter"
DQC_NODE == "DQCNode"
BSM_NODE == "BSMNode"
QKD_NODE == "QKDNode"
ORCHESTRATOR == "QlanOrchestratorNode"
CLIENT == "QlanClientNode"
MEET_IN_THE_MID == "meet_in_the_middle"

\* class NodeType(Enum): the set of values NodeType(s) accepts
NodeType == {QUANTUM_ROUTER, DQC_NODE, BSM_NODE, QKD_NODE, ORCHESTRATOR, CLIENT}
MIDPOINT_NODE_TYPES == {BSM_NODE}
ENDPOINT_NODE_TYPES == {QUANTUM_ROUTER, DQC_NODE, QKD_NODE, ORCHESTRATOR, CLIENT}

\* The import-time check of const_topo on a classification [midpoint,
\* endpoint]: _unclassified, and whether the module raises TypeError
Unclassified(c) == (NodeType \ c.midpoint) \ c.endpoint
ImportOutcome(c) == IF Unclassified(c) # {} THEN "TypeError" ELSE "accepted"
\* the classification const_topo ships with, already imported
Shipped == [midpoint |-> MIDPOINT_NODE_TYPES, endpoint |-> ENDPOINT_NODE_TYPES,
            outcome |-> "accepted"]

\* NODE_TYPES of each Topology subclass (keys only; the values are classes)
NODE_TYPES(t) ==
    CASE t = "RouterNetTopo" -> {QUANTUM_ROUTER}
      [] t = "DQCNetTopo"    -> {DQC_NODE}
      [] t = "QlanStarTopo"  -> {ORCHESTRATOR, CLIENT}

\* the NetworkImpl each subclass composes
Impl(t) == IF t = "QlanStarTopo" THEN "QlanNetworkImpl" ELSE "BsmNetworkImpl"

----------------------------------------------------------------------------
(* Dictionary access. *)

\* d.get(key, default) for an optional key
Get(opt, default) == IF opt = <<>> THEN default ELSE opt[1]

Some(v) == <<v>>
None == <<>>

RECURSIVE SumSeq(_)
SumSeq(s) == IF s = <<>> THEN 0 ELSE s[1] + SumSeq(Tail(s))

Range(s) == {s[i] : i \in DOMAIN s}

SeqsUpTo(S, n) == UNION {[1..k -> S] : k \in 0..n}

\* [f(s[1]), ..., f(s[n])]
MapSeq(s, f(_)) == [i \in DOMAIN s |-> f(s[i])]

----------------------------------------------------------------------------
(* Declarations of the config dict.  qchannels and cchannels are optional  *)
(* top-level keys (None: the key is absent); the other sections are only   *)
(* read through config.get(section, []), so an absent one is an empty one. *)

NodeDecl(name, type, seed) ==
    [name |-> name, type |-> type, seed |-> seed, template |-> None,
     memo_size |-> None, data_memo_size |-> None]

QConnect(node1, node2, distance, type, seed, template) ==
    [node1 |-> node1, node2 |-> node2, attenuation |-> 1, distance |-> distance,
     type |-> type, seed |-> seed, template |-> template]

CConnect(node1, node2, distance, delay) ==
    [node1 |-> node1, node2 |-> node2, distance |-> distance, delay |-> delay]

QChannelDecl(name, src, dst, distance, attenuation) ==
    [name |-> name, source |-> src, destination |-> dst,
     distance |-> distance, attenuation |-> attenuation]

CChannelDecl(name, src, dst, distance, delay) ==
    [name |-> name, source |-> src, destination |-> dst,
     distance |-> distance, delay |-> delay]

Config(nodeList, qconns, cconns, qchans, cchans) ==
    [nodes |-> nodeList, qconnections |-> qconns, cconnections |-> cconns,
     qchannels |-> qchans, cchannels |-> cchans,
     templates |-> [t \in {"t1"} |-> [MemoryArray |-> [fidelity |-> 95]]]]

----------------------------------------------------------------------------
(* Connection expander: Topology._add_qconnections and                     *)
(* BsmNetworkImpl._handle_qconnection.                                     *)

\* 1 / SPEED_OF_LIGHT (sequence.constants.SPEED_OF_LIGHT is 2e-4 m/ps)
InvSpeedOfLight == 5000
\* cc.get(DISTANCE, 1000)
DefaultCcDistance == 1000

\* cc.get(DELAY, cc.get(DISTANCE, 1000) / SPEED_OF_LIGHT)
CcDelayValue(cc) ==
    Get(cc.delay, Get(cc.distance, DefaultCcDistance) * InvSpeedOfLight)

\* frozenset({cc[src_key], cc[dst_key]}) == endpoints
SamePairOrdered(x, y, node1, node2) == x = node1 /\ y = node2
SamePairEither(x, y, node1, node2) == {x, y} \cap {node1, node2} # {}
SamePair(x, y, node1, node2) == {x, y} = {node1, node2}

\* the list cc_delay built by the two nested loops: the cchannels section
\* (source/destination) first, then the cconnections section (node1/node2)
CcDelayList(cfg, node1, node2) ==
    LET chans == Get(cfg.cchannels, <<>>)
        fromChans == SelectSeq(chans,
            LAMBDA cc : SamePair(cc.source, cc.destination, node1, node2))
        fromConns == SelectSeq(cfg.cconnections,
            LAMBDA cc : SamePair(cc.node1, cc.node2, node1, node2))
    IN  MapSeq(fromChans, CcDelayValue) \o MapSeq(fromConns, CcDelayValue)

\* int(np.mean(cc_delay) // 2), for a non-empty list
CcDelay(delays) == SumSeq(delays) \div (2 * Len(delays))

\* if q_connect[TYPE] == MEET_IN_THE_MID
AnyKind(q) == TRUE
IsMeetInTheMiddle(q) == q.type = MEET_IN_THE_MID

\* f"BSM.{node1}.{node2}.auto"
BsmName(node1, node2) == "BSM." \o node1 \o "." \o node2 \o ".auto"

\* q_connect[DISTANCE] // 2
HalfDistanceCeil(q) == (q.distance + 1) \div 2
HalfDistance(q) == q.distance \div 2

\* the three declarations appended for one src of the for-loop
DerivedQChannel(src, bsm_name, distance, attenuation) ==
    QChannelDecl(Some("QC." \o src \o "." \o bsm_name), src, bsm_name,
                 distance, attenuation)
DerivedCChannels(src, bsm_name, distance, cc_delay) ==
    << CChannelDecl(Some("CC." \o src \o "." \o bsm_name), src, bsm_name,
                    Some(distance), Some(cc_delay)),
       CChannelDecl(Some("CC." \o bsm_name \o "." \o src), bsm_name, src,
                    Some(distance), Some(cc_delay)) >>

\* the MEET_IN_THE_MID branch: the config after the appends
HandleQConnection(q, cc_delay, cfg) ==
    LET bsm_name == BsmName(q.node1, q.node2)
        distance == HalfDistance(q)
    IN  [cfg EXCEPT
            !.nodes = Append(@, [name |-> bsm_name, type |-> BSM_NODE,
                                 seed |-> Get(q.seed, 0),
                                 template |-> q.template,
                                 memo_size |-> None, data_memo_size |-> None]),
            !.qchannels = Some(Get(@, <<>>)
                \o << DerivedQChannel(q.node1, bsm_name, distance, q.attenuation),
                      DerivedQChannel(q.node2, bsm_name, distance, q.attenuation) >>),
            !.cchannels = Some(Get(@, <<>>)
                \o DerivedCChannels(q.node1, bsm_name, distance, cc_delay)
                \o DerivedCChannels(q.node2, bsm_name, distance, cc_delay))]

----------------------------------------------------------------------------
(* Ordered dictionaries (Python dicts keep insertion order): a sequence of *)
(* [key, val] entries with distinct keys.                                  *)

DictKeys(d) == {d[i].key : i \in DOMAIN d}
DictGet(d, k) == d[CHOOSE i \in DOMAIN d : d[i].key = k].val
DictSet(d, k, v) ==
    IF k \in DictKeys(d)
    THEN [i \in DOMAIN d |-> IF d[i].key = k THEN [key |-> k, val |-> v] ELSE d[i]]
    ELSE Append(d, [key |-> k, val |-> v])

----------------------------------------------------------------------------
(* Timeline (kernel, outside the topology package).  Only the entity       *)
(* namespace is modelled: the names of the node objects, in the order the  *)
(* constructors registered them.                                           *)

NoTimeline == [created |-> FALSE, entities |-> <<>>]
NewTimeline == [created |-> TRUE, entities |-> <<>>]

\* tl.get_entity_by_name(name) is not None
HasEntity(timeline, name) == name \in Range(timeline.entities)

\* Entity.__init__ -> Timeline.add_entity: a name is registered once
CanAddEntity(timeline, name) == ~HasEntity(timeline, name)
AddEntity(timeline, name) == [timeline EXCEPT !.entities = Append(@, name)]

----------------------------------------------------------------------------
(* Node factory: Topology._add_nodes, BsmNetworkImpl._create_node,         *)
(* QlanNetworkImpl._ordered_node_dicts and QlanNetworkImpl._create_node.   *)

\* d.get(k, default) on a mapping with string keys
DictGetOr(d, k, default) == IF k \in DOMAIN d THEN d[k] ELSE default

\* The memory parameters of the star family and their built-in defaults.
\* Fidelity and efficiency are written in hundredths (0.9 is 90, 1 is 100).
Params == {"fidelity", "frequency", "efficiency", "coherence_time", "wavelength"}
DefaultFidelity == 90
DefaultFrequency == 2000
DefaultEfficiency == 100
DefaultCoherence == -1
DefaultWavelength == 500
Default(p) ==
    CASE p = "fidelity" -> DefaultFidelity
      [] p = "frequency" -> DefaultFrequency
      [] p = "efficiency" -> DefaultEfficiency
      [] p = "coherence_time" -> DefaultCoherence
      [] p = "wavelength" -> DefaultWavelength

\* MEM_FIDELITY_ORCH = "memo_fidelity_orch", ..., MEM_WAVELENGTH_CLIENT
FlatKey(role, p) ==
    "memo_" \o (IF p = "coherence_time" THEN "coherence" ELSE p) \o "_" \o role
Roles == {"orch", "client"}
LegacyKeys == {FlatKey(r, p) : r \in Roles, p \in Params}

\* memo_arr.get("fidelity", 0.9), ..., memo_arr.get("wavelength", 500)
MemoryArgs(memo_arr) == [p \in Params |-> DictGetOr(memo_arr, p, Default(p))]

\* Topology._qlan_memarray(config, node_type)
RECURSIVE QlanMemarray(_, _, _)
QlanMemarray(node_list, tmpls, node_type) ==
    IF node_list = <<>> THEN <<>>
    ELSE LET node == node_list[1]
         IN  IF node.type = node_type /\ node.template # <<>>
                /\ node.template[1] \in DOMAIN tmpls
             THEN DictGetOr(tmpls[node.template[1]], "MemoryArray", <<>>)
             ELSE QlanMemarray(Tail(node_list), tmpls, node_type)

\* the test that selects the flat branch of _add_qlan_parameters
AnyLegacyKey(fl) == DOMAIN fl \cap LegacyKeys # {}
IsLegacy(fl) == "memo_fidelity_orch" \in DOMAIN fl

\* Topology._add_qlan_parameters(config): the attributes it sets
NoHw == [dialect |-> "", orch |-> <<>>, client |-> <<>>]
AddQlanParameters(cfg, fl, tmpls) ==
    IF IsLegacy(fl)
    THEN [dialect |-> "legacy",
          orch |-> [p \in Params |-> DictGetOr(fl, FlatKey("orch", p), Default(p))],
          client |-> [p \in Params |-> DictGetOr(fl, FlatKey("client", p), Default(p))]]
    ELSE [dialect |-> "templated",
          orch |-> MemoryArgs(QlanMemarray(cfg.nodes, tmpls, ORCHESTRATOR)),
          client |-> MemoryArgs(QlanMemarray(cfg.nodes, tmpls, CLIENT))]

\* self.templates.get(node_config.get(TEMPLATE), {})
EmptyTemplate == <<>>
UnresolvedTemplate(tmpls, node_config) == EmptyTemplate
ResolveTemplate(tmpls, node_config) ==
    IF node_config.template # None /\ node_config.template[1] \in DOMAIN tmpls
    THEN tmpls[node_config.template[1]]
    ELSE EmptyTemplate

\* {k: node[k] for k in _NODE_CONSTRUCTOR_PARAMS if k in node}
NodeKwargs(node) ==
    [memo_size |-> node.memo_size, data_memo_size |-> node.data_memo_size]
NoKwargs == [memo_size |-> None, data_memo_size |-> None]

NodeObject(node_config, others, kwargs, template, remote) ==
    [name |-> node_config.name, type |-> node_config.type,
     seed |-> node_config.seed, others |-> others, kwargs |-> kwargs,
     template |-> template, remote_memories |-> remote]

\* nodes[node_type].append(node_obj) on the defaultdict(list)
RegistryReplace(reg, node_type, obj) == DictSet(reg, node_type, <<obj>>)
RegistryAppend(reg, node_type, obj) ==
    IF node_type \in DictKeys(reg)
    THEN DictSet(reg, node_type, Append(DictGet(reg, node_type), obj))
    ELSE DictSet(reg, node_type, <<obj>>)

\* every node object of the registry, type by type
RECURSIVE RegistryObjects(_)
RegistryObjects(reg) ==
    IF reg = <<>> THEN <<>> ELSE reg[1].val \o RegistryObjects(Tail(reg))

\* NetworkImpl._ordered_node_dicts (the default) and the QLAN override
OrderedClientsFirst(node_list) ==
    SelectSeq(node_list, LAMBDA n : n.type = CLIENT)
    \o SelectSeq(node_list, LAMBDA n : n.type \notin {CLIENT, ORCHESTRATOR})
    \o SelectSeq(node_list, LAMBDA n : n.type = ORCHESTRATOR)
OrderedAsDeclared(node_list) == node_list
QlanOrderedNodeDicts(node_list) ==
    SelectSeq(node_list, LAMBDA n : n.type \notin {CLIENT, ORCHESTRATOR})
    \o SelectSeq(node_list, LAMBDA n : n.type = CLIENT)
    \o SelectSeq(node_list, LAMBDA n : n.type = ORCHESTRATOR)
OrderedNodeDicts(t, node_list) ==
    IF Impl(t) = "QlanNetworkImpl" THEN QlanOrderedNodeDicts(node_list)
    ELSE node_list

\* The construction state threaded through the loop of _add_nodes:
\*   reg: Topology.nodes, timeline: Topology.tl,
\*   remote: QlanNetworkImpl._remote_memories, err: the exception raised
Built(st, node_type, obj) ==
    IF ~CanAddEntity(st.timeline, obj.name)
    THEN [st EXCEPT !.err = "AssertionError"]
    ELSE [st EXCEPT !.reg = RegistryAppend(@, node_type, obj),
                    !.timeline = AddEntity(@, obj.name)]

\* the type checks of BsmNetworkImpl._create_node: "" when the node can be built
BsmCreateNodeError(node_config, bsm_map, node_types) ==
    IF node_config.type \notin NodeType THEN "ValueError"
    ELSE IF node_config.type = BSM_NODE
    THEN IF node_config.name \in DictKeys(bsm_map) THEN "" ELSE "KeyError"
    ELSE IF node_config.type \notin node_types THEN "NotImplementedError" ELSE ""

BsmCreateNode(st, node_config, template, bsm_map, node_types, kwargs) ==
    LET e == BsmCreateNodeError(node_config, bsm_map, node_types)
    IN  IF e # "" THEN [st EXCEPT !.err = e]
        ELSE IF node_config.type = BSM_NODE
        THEN Built(st, node_config.type,
                   NodeObject(node_config, DictGet(bsm_map, node_config.name),
                              NoKwargs, template, <<>>))
        ELSE Built(st, node_config.type,
                   NodeObject(node_config, <<>>,
                              IF node_config.name \in DictKeys(kwargs)
                              THEN DictGet(kwargs, node_config.name) ELSE NoKwargs,
                              template, <<>>))

\* the memory arguments QlanClientNode / QlanOrchestratorNode are called with
QlanMemory(template) == MemoryArgs(DictGetOr(template, "MemoryArray", <<>>))

QlanCreateNode(st, node_config, template) ==
    IF node_config.type = CLIENT
    THEN LET b == Built(st, node_config.type,
                        NodeObject(node_config, <<>>, NoKwargs, template, <<>>)
                        @@ [memory |-> QlanMemory(template)])
         IN  IF b.err # "" THEN b
             ELSE [b EXCEPT !.remote = Append(@, node_config.name)]
    ELSE IF node_config.type = ORCHESTRATOR
    THEN Built(st, node_config.type,
               NodeObject(node_config, <<>>, NoKwargs, template, st.remote)
               @@ [memory |-> QlanMemory(template)])
    ELSE [st EXCEPT !.err = "ValueError"]

CreateNode(t, st, node_config, template, bsm_map, kwargs) ==
    IF Impl(t) = "QlanNetworkImpl"
    THEN QlanCreateNode(st, node_config, template)
    ELSE BsmCreateNode(st, node_config, template, bsm_map, NODE_TYPES(t), kwargs)

\* the for-loop of _add_nodes from position i on; it stops at the first raise
RECURSIVE AddNodesLoop(_, _, _, _, _, _, _)
AddNodesLoop(t, st, ordered, i, tmpls, bsm_map, kwargs) ==
    IF i > Len(ordered) THEN st
    ELSE LET next == CreateNode(t, st, ordered[i],
                                ResolveTemplate(tmpls, ordered[i]), bsm_map, kwargs)
         IN  IF next.err # "" THEN next
             ELSE AddNodesLoop(t, next, ordered, i + 1, tmpls, bsm_map, kwargs)

----------------------------------------------------------------------------
(* Midpoint-to-endpoint map: BsmNetworkImpl._map_bsm_routers and           *)
(* BsmNetworkImpl._add_bsm_node_to_router.                                 *)

\* the loop of _map_bsm_routers over config[ALL_Q_CHANNEL]
RECURSIVE MapBsmRoutersLoop(_, _)
MapBsmRoutersLoop(qcs, bsm_map) ==
    IF qcs = <<>> THEN bsm_map
    ELSE LET src == qcs[1].source
             dst == qcs[1].destination
         IN  MapBsmRoutersLoop(Tail(qcs),
                IF dst \in DictKeys(bsm_map)
                THEN DictSet(bsm_map, dst, Append(DictGet(bsm_map, dst), src))
                ELSE DictSet(bsm_map, dst, <<src>>))

\* r.add_bsm_node(bsm, other): the endpoint's map from the far endpoint to
\* the midpoint; adj is the set of <<endpoint, far endpoint, midpoint>>
AddBsmNode(adj, r, bsm, other) ==
    {t \in adj : ~(t[1] = r /\ t[2] = other)} \cup {<<r, other, bsm>>}

\* the loop of _add_bsm_node_to_router from entry i on; r0_str, r1_str = ...
\* raises ValueError unless the entry lists exactly two names
RECURSIVE AddBsmNodeToRouterLoop(_, _, _, _)
AddBsmNodeToRouterLoop(bsm_map, i, timeline, st) ==
    IF i > Len(bsm_map) THEN st
    ELSE LET bsm == bsm_map[i].key
             rs == bsm_map[i].val
         IN  IF Len(rs) # 2 THEN [st EXCEPT !.err = "ValueError"]
             ELSE LET a0 == IF HasEntity(timeline, rs[1])
                            THEN AddBsmNode(st.adj, rs[1], bsm, rs[2]) ELSE st.adj
                      a1 == IF HasEntity(timeline, rs[2])
                            THEN AddBsmNode(a0, rs[2], bsm, rs[1]) ELSE a0
                  IN  AddBsmNodeToRouterLoop(bsm_map, i + 1, timeline,
                                             [st EXCEPT !.adj = a1])

----------------------------------------------------------------------------
(* Channel installer: Topology._add_qchannels, _add_cchannels,             *)
(* _add_cconnections and _make_classical_channel.                          *)

QuantumChannel(name, attenuation, distance, sender, receiver) ==
    [name |-> name, attenuation |-> attenuation, distance |-> distance,
     sender |-> sender, receiver |-> receiver]

ClassicalChannel(name, distance, delay, sender, receiver) ==
    [name |-> name, distance |-> distance, delay |-> delay,
     sender |-> sender, receiver |-> receiver]

\* the guard "src_node is not None" of both installers
SourceAndDestinationFound(timeline, src_str, dst_str) ==
    HasEntity(timeline, src_str) /\ HasEntity(timeline, dst_str)
SourceFound(timeline, src_str, dst_str) == HasEntity(timeline, src_str)

RECURSIVE AddQChannelsLoop(_, _, _)
AddQChannelsLoop(qcs, timeline, objs) ==
    IF qcs = <<>> THEN objs
    ELSE LET qc == qcs[1]
             src_str == qc.source
             dst_str == qc.destination
         IN  AddQChannelsLoop(Tail(qcs), timeline,
                IF SourceFound(timeline, src_str, dst_str)
                THEN Append(objs,
                        QuantumChannel(Get(qc.name, "qc-" \o src_str \o "-" \o dst_str),
                                       qc.attenuation, qc.distance, src_str, dst_str))
                ELSE objs)

\* _make_classical_channel(src_str, dst_str, distance, delay, name)
MakeClassicalChannel(objs, timeline, src_str, dst_str, distance, delay, name) ==
    IF SourceFound(timeline, src_str, dst_str)
    THEN Append(objs,
            ClassicalChannel(Get(name, "cc-" \o src_str \o "-" \o dst_str),
                             distance, delay, src_str, dst_str))
    ELSE objs

RECURSIVE AddCChannelsLoop(_, _, _)
AddCChannelsLoop(ccs, timeline, objs) ==
    IF ccs = <<>> THEN objs
    ELSE LET cc == ccs[1]
         IN  AddCChannelsLoop(Tail(ccs), timeline,
                MakeClassicalChannel(objs, timeline, cc.source, cc.destination,
                                     Get(cc.distance, -1), Get(cc.delay, -1), cc.name))

RECURSIVE AddCConnectionsLoop(_, _, _)
AddCConnectionsLoop(cs, timeline, objs) ==
    IF cs = <<>> THEN objs
    ELSE LET c == cs[1]
             distance == Get(c.distance, -1)
             delay == Get(c.delay, -1)
             first == MakeClassicalChannel(objs, timeline, c.node1, c.node2,
                                           distance, delay, None)
         IN  AddCConnectionsLoop(Tail(cs), timeline,
                MakeClassicalChannel(first, timeline, c.node2, c.node1,
                                     distance, delay, None))

----------------------------------------------------------------------------
(* Forwarding table generator: BsmNetworkImpl._generate_forwarding_table.  *)

\* The endpoint names configurations are written with, in Python's string
\* order.  Every other name of the model starts with an upper-case letter
\* and sorts before them.
NameSeq == <<"a", "b", "c", "d", "y", "z">>
\* the same with the dotted names chains are written with
PyOrder == <<"a", "a.b", "b", "b.c", "c", "d", "y", "z">>
NameRank(n) == IF n \in Range(PyOrder) THEN CHOOSE i \in DOMAIN PyOrder : PyOrder[i] = n
               ELSE 0
\* dst_name > src.name
PyGreater(x, y) == NameRank(x) > NameRank(y)

\* the dict costs: bsm -> [router, ..., router, summed distance]; the list is
\* kept as the routers in list order and the trailing number
RECURSIVE Costs(_, _)
Costs(qcs, costs) ==
    IF qcs = <<>> THEN costs
    ELSE LET router == qcs[1].sender
             bsm == qcs[1].receiver
         IN  Costs(Tail(qcs),
                IF bsm \notin DictKeys(costs)
                THEN DictSet(costs, bsm, [routers |-> <<router>>, dist |-> qcs[1].distance])
                ELSE LET old == DictGet(costs, bsm)
                     IN  DictSet(costs, bsm, [routers |-> <<router>> \o old.routers,
                                              dist |-> old.dist + qcs[1].distance]))

\* the names graph.add_node is called with
GraphNodes(cfg) ==
    {cfg.nodes[i].name : i \in {j \in DOMAIN cfg.nodes :
                                  cfg.nodes[j].type \notin MIDPOINT_NODE_TYPES}}

\* graph.add_weighted_edges_from(costs.values()): an undirected simple graph,
\* so a later edge between the same two nodes replaces the weight
RECURSIVE AddWeightedEdges(_, _)
AddWeightedEdges(g, costs) ==
    IF costs = <<>> THEN g
    ELSE LET info == costs[1].val
             e == {info.routers[1], info.routers[2]}
         IN  AddWeightedEdges(
                [nodes |-> g.nodes \cup e,
                 weight |-> [x \in DOMAIN g.weight \cup {e} |->
                                IF x = e THEN info.dist ELSE g.weight[x]]],
                Tail(costs))

Neighbours(g, u) == {v \in g.nodes : {u, v} \in DOMAIN g.weight}

RECURSIVE SimplePathsFrom(_, _, _)
SimplePathsFrom(g, p, v) ==
    IF p[Len(p)] = v THEN {p}
    ELSE UNION {SimplePathsFrom(g, Append(p, n), v) :
                    n \in Neighbours(g, p[Len(p)]) \ Range(p)}

PathWeight(g, p) == SumSeq([i \in 1..(Len(p) - 1) |-> g.weight[{p[i], p[i + 1]}]])

\* what dijkstra_path(graph, u, v) may return: a path of least total weight
\* (which one among equal ones is the library's choice); the empty set stands
\* for NetworkXNoPath
AnySimplePaths(g, u, v) == SimplePathsFrom(g, <<u>>, v)
ShortestPaths(g, u, v) ==
    LET P == SimplePathsFrom(g, <<u>>, v)
    IN  {p \in P : \A q \in P : PathWeight(g, p) <= PathWeight(g, q)}

Reverse(p) == [i \in 1..Len(p) |-> p[Len(p) + 1 - i]]

\* the arguments dijkstra_path is called with for the pair (src, dst)
DijkstraCall(src, dst) == IF PyGreater(dst, src) THEN <<src, dst>> ELSE <<dst, src>>

\* the path of the pair (src, dst), given what dijkstra_path returned
PathUnreversed(src, dst, found) == found
PathOf(src, dst, found) == IF PyGreater(dst, src) THEN found ELSE Reverse(found)

\* the non-midpoint node objects, in the order nodes.items() yields them
ObjectsOfEveryType(reg) == RegistryObjects(reg)
RECURSIVE EndpointObjects(_)
EndpointObjects(reg) ==
    IF reg = <<>> THEN <<>>
    ELSE (IF reg[1].key \in MIDPOINT_NODE_TYPES THEN <<>> ELSE reg[1].val)
         \o EndpointObjects(Tail(reg))

\* every way the library may answer the calls of one run: one shortest path
\* for each distinct call
RECURSIVE Picks(_, _)
Picks(g, calls) ==
    IF calls = {} THEN {<<>>}
    ELSE LET c == CHOOSE c \in calls : TRUE
         IN  {(c :> p) @@ f : p \in ShortestPaths(g, c[1], c[2]),
                              f \in Picks(g, calls \ {c})}

\* the calls that return a path, over all (src, dst) of the double loop
StaticCalls(g, srcs) ==
    {c \in {DijkstraCall(s, d) : s \in srcs, d \in g.nodes} :
        c[1] # c[2] /\ ShortestPaths(g, c[1], c[2]) # {}}

\* forwarding table of every source after the double loop
StaticTables(g, srcs, pick) ==
    [s \in srcs |->
        [d \in {x \in g.nodes \ {s} : DijkstraCall(s, x) \in DOMAIN pick} |->
            PathOf(s, d, pick[DijkstraCall(s, d)])[2]]]

\* routing_protocol.init() of the router named: the call is recorded with
\* the link_cost table the component holds when it runs
RoutingInitUnseeded(st, name) ==
    Append(st.inits, [router |-> name, link_cost |-> {}])
RoutingInit(st, name) ==
    Append(st.inits,
           [router |-> name,
            link_cost |-> {<<t[2], t[3]>> : t \in {x \in st.lc : x[1] = name}}])

\* the distributed branch from endpoint i, cost entry j on:
\*   lc: set of <<router, neighbor, cost>>, inits: the init() calls made
RECURSIVE SeedLinkCosts(_, _, _, _, _)
SeedLinkCosts(routers, costs, i, j, st) ==
    IF i > Len(routers) THEN st
    ELSE IF j > Len(costs)
    THEN SeedLinkCosts(routers, costs, i + 1, 1,
                       [st EXCEPT !.inits = RoutingInit(st, routers[i].name)])
    ELSE LET name == routers[i].name
             info == costs[j].val
         IN  IF name \notin Range(info.routers)
             THEN SeedLinkCosts(routers, costs, i, j + 1, st)
             ELSE IF Len(info.routers) < 2 THEN [st EXCEPT !.err = "IndexError"]
             ELSE LET neighbor == IF info.routers[1] # name THEN info.routers[1]
                                  ELSE info.routers[2]
                      cost == IF Len(info.routers) = 2 THEN info.dist
                              ELSE info.routers[3]
                  IN  SeedLinkCosts(routers, costs, i, j + 1,
                        [st EXCEPT !.lc = {t \in @ : ~(t[1] = name /\ t[2] = neighbor)}
                                           \cup {<<name, neighbor, cost>>}])

----------------------------------------------------------------------------
(* DQCNetTopo.infer_qubit_to_node and DQCNetTopo.infer_memory_owners.  The *)
(* node list they read, self._raw_cfg["nodes"], is the list the pipeline   *)
(* expanded.                                                               *)

\* nd.get("n_data", 1)
NDataOrZero(nd) == DictGetOr(nd, "n_data", 0)
NData(nd) == DictGetOr(nd, "n_data", 1)

\* the two loops from the k-th qubit of node i on; st is
\* [mapping, next_wire, err]
RECURSIVE InferLoop(_, _, _, _, _)
InferLoop(node_list, i, k, total_wires, st) ==
    IF i > Len(node_list)
    THEN IF st.next_wire # total_wires
         THEN [st EXCEPT !.err = "ValueError", !.mapping = <<>>]
         ELSE st
    ELSE IF k >= NData(node_list[i])
    THEN InferLoop(node_list, i + 1, 0, total_wires, st)
    ELSE IF st.next_wire >= total_wires
    THEN [st EXCEPT !.err = "ValueError", !.mapping = <<>>]
    ELSE InferLoop(node_list, i, k + 1, total_wires,
            [st EXCEPT !.mapping = Append(@, [key |-> st.next_wire,
                                              val |-> node_list[i].name]),
                       !.next_wire = @ + 1])

\* infer_qubit_to_node(total_wires): the dict as key/value pairs in
\* insertion order, or the exception
InferQubitToNode(node_list, total_wires) ==
    InferLoop(node_list, 1, 0, total_wires,
              [mapping |-> <<>>, next_wire |-> 0, err |-> ""])

\* the loop of infer_memory_owners over qubit_to_node.items() from entry i on
RECURSIVE OwnersLoop(_, _, _)
OwnersLoop(qubit_to_node, i, st) ==
    IF i > Len(qubit_to_node) THEN st
    ELSE LET q == qubit_to_node[i].key
             owner == qubit_to_node[i].val
         IN  IF owner \notin DictKeys(st.data_owners)
             THEN [st EXCEPT !.err = "KeyError", !.data_owners = <<>>]
             ELSE LET slot == Len(DictGet(st.data_owners, owner))
                  IN  OwnersLoop(qubit_to_node, i + 1,
                         [st EXCEPT !.data_owners =
                             DictSet(@, owner,
                                     Append(DictGet(@, owner),
                                            [key |-> q, val |-> slot]))])

\* infer_memory_owners(total_wires, ancilla_inds)
InferMemoryOwners(node_list, reg, total_wires) ==
    LET found == InferQubitToNode(node_list, total_wires)
    IN  IF found.err # "" THEN [data_owners |-> <<>>, err |-> found.err]
        ELSE OwnersLoop(found.mapping, 1,
                [data_owners |-> [i \in DOMAIN reg |-> [key |-> reg[i].key, val |-> <<>>]],
                 err |-> ""])

----------------------------------------------------------------------------
(* The configurations explored.  Four families of config dicts, each       *)
(* varying the part of the schema one group of stages reads.               *)

Routers(names) == [i \in DOMAIN names |-> NodeDecl(names[i], QUANTUM_ROUTER, i)]

\* connection expansion: three routers; quantum connections of both kinds,
\* with and without seed and template; classical declarations in both
\* sections, in both endpoint orders, with a delay, a distance or neither
ExpandQConnects ==
    {QConnect("a", "b", 5, MEET_IN_THE_MID, None, None),
     QConnect("a", "b", 8, MEET_IN_THE_MID, Some(7), Some("t1")),
     QConnect("b", "a", 5, MEET_IN_THE_MID, None, None),
     QConnect("b", "c", 8, MEET_IN_THE_MID, Some(7), Some("t1")),
     QConnect("a", "b", 8, "direct", None, None),
     QConnect("b", "c", 8, "direct", None, None)}
ExpandCConnects ==
    {CConnect("a", "b", None, Some(10)), CConnect("b", "a", None, Some(7)),
     CConnect("b", "a", Some(3), None), CConnect("b", "c", None, None),
     CConnect("b", "c", Some(2), Some(10))}
ExpandCChannels ==
    {None, Some(<<CChannelDecl(None, "a", "b", None, Some(7))>>),
     Some(<<CChannelDecl(Some("up"), "b", "a", Some(1), None)>>)}
ExpandConfigs ==
    {Config(Routers(<<"a", "b", "c">>), qs, cs, None, ch) :
        qs \in SeqsUpTo(ExpandQConnects, MaxQConn),
        cs \in SeqsUpTo(ExpandCConnects, MaxCConn),
        ch \in ExpandCChannels}

\* node construction: up to MaxNodes declarations of registered, unregistered
\* and unknown types in every order, one optional connection
NodeTypeChoices(t) ==
    IF t = "QlanStarTopo" THEN {CLIENT, ORCHESTRATOR, QUANTUM_ROUTER}
    ELSE {QUANTUM_ROUTER, QKD_NODE, "Widget"}
NodeLists(t) ==
    UNION {{[i \in 1..k |-> NodeDecl(NameSeq[i], ty[i], i)] :
                ty \in [1..k -> NodeTypeChoices(t)]} : k \in 1..MaxNodes}
NodeConfigs(t) ==
    {Config(ns, qs, <<CConnect("a", "b", None, Some(10))>>, Some(<<>>), None) :
        ns \in NodeLists(t),
        qs \in {<<>>, <<QConnect("a", "b", 8, MEET_IN_THE_MID, None, None)>>}}

\* channel installation: explicit channels and classical connections whose
\* ends are declared nodes ("a", "b", the midpoint "M") or not ("z")
ChannelNodes(t) ==
    IF t = "QlanStarTopo"
    THEN <<NodeDecl("a", CLIENT, 1), NodeDecl("b", ORCHESTRATOR, 2)>>
    ELSE <<NodeDecl("a", QUANTUM_ROUTER, 1), NodeDecl("b", QUANTUM_ROUTER, 2),
           NodeDecl("M", BSM_NODE, 3)>>
ChannelQChannels ==
    {QChannelDecl(None, "a", "M", 4, 1), QChannelDecl(Some("q2"), "b", "M", 6, 1),
     QChannelDecl(None, "z", "M", 6, 1)}
ChannelCChannels ==
    {CChannelDecl(None, "a", "b", Some(5), None),
     CChannelDecl(Some("c2"), "z", "a", None, Some(9))}
ChannelCConnects ==
    {CConnect("a", "b", None, Some(10)), CConnect("a", "z", Some(3), None),
     CConnect("z", "y", None, Some(4))}
ChannelConfigs(t) ==
    {Config(ChannelNodes(t), <<>>, cs, Some(qc), Some(cc)) :
        qc \in SeqsUpTo(ChannelQChannels, MaxQChan),
        cc \in SeqsUpTo(ChannelCChannels, MaxCChan),
        cs \in SeqsUpTo(ChannelCConnects, MaxCConn)}

\* routing: four routers and up to MaxRouteEdges meet-in-the-middle
\* connections between them, each with a classical connection
RoutePairs == << <<"a", "b">>, <<"c", "b">>, <<"c", "d">>,
                 <<"a", "c">>, <<"b", "d">>, <<"a", "d">> >>
RouteDistances == {4, 8, 13}
RouteChoices ==
    {f \in [DOMAIN RoutePairs -> RouteDistances \cup {0}] :
        Cardinality({i \in DOMAIN f : f[i] # 0}) <= MaxRouteEdges}
RouteEdges(f) == SelectSeq([i \in DOMAIN RoutePairs |-> i], LAMBDA i : f[i] # 0)
RouteConfigs ==
    {Config(Routers(SubSeq(NameSeq, 1, 4)),
            MapSeq(RouteEdges(f), LAMBDA i :
                QConnect(RoutePairs[i][1], RoutePairs[i][2], f[i],
                         MEET_IN_THE_MID, None, None)),
            MapSeq(RouteEdges(f), LAMBDA i :
                CConnect(RoutePairs[i][1], RoutePairs[i][2], None, Some(10))),
            None, None) :
        f \in RouteChoices}

\* linear chains: MaxChain routers at most, named in or out of string order
\* or with dotted names, joined pairwise by meet-in-the-middle connections
ChainNames ==
    {<<"a", "b", "c", "d", "y">>, <<"c", "a", "d", "b", "z">>,
     <<"a", "b.c", "a.b", "c", "d">>}
ChainDistances == {1, 5, 8}
ChainConfigs ==
    {Config(Routers(SubSeq(names, 1, n)),
            [i \in 1..(n - 1) |->
                QConnect(names[i], names[i + 1], ds[i], MEET_IN_THE_MID, None, None)],
            [i \in 1..(n - 1) |-> CConnect(names[i], names[i + 1], None, Some(10))],
            None, None) :
        <<names, n, ds>> \in
            UNION {{<<nm, k, d>> : nm \in ChainNames, d \in [1..(k - 1) -> ChainDistances]} :
                      k \in 2..MaxChain}}

\* hardware parameters of the star family: nodes with and without template
\* references, template sections that define all, some or none of the
\* parameters, and top-level legacy keys: none, any single one, or all
WithTemplate(node, ref) == [node EXCEPT !.template = ref]
ParamNodes ==
    {<<WithTemplate(NodeDecl("a", ORCHESTRATOR, 1), Some("t1")),
       WithTemplate(NodeDecl("b", CLIENT, 2), Some("t2")),
       NodeDecl("c", CLIENT, 3)>>,
     <<NodeDecl("a", CLIENT, 1), NodeDecl("b", ORCHESTRATOR, 2)>>,
     <<WithTemplate(NodeDecl("a", CLIENT, 1), Some("t3")),
       WithTemplate(NodeDecl("b", ORCHESTRATOR, 2), Some("t2")),
       NodeDecl("c", CLIENT, 3)>>}
TemplateValues ==
    [fidelity |-> 95, frequency |-> 3000, efficiency |-> 80,
     coherence_time |-> 5, wavelength |-> 1550]
ParamTemplates ==
    {<<>>,
     [t \in {"t1", "t2"} |-> [MemoryArray |->
         IF t = "t1" THEN TemplateValues ELSE [fidelity |-> 80]]],
     [t \in {"t1", "t2"} |->
         IF t = "t1" THEN [MemoryArray |-> [frequency |-> 3000]]
         ELSE [Detector |-> [efficiency |-> 50]]]}
FlatValues ==
    [k \in LegacyKeys |->
        CASE k \in {FlatKey(r, "fidelity") : r \in Roles} -> 85
          [] k \in {FlatKey(r, "frequency") : r \in Roles} -> 1000
          [] k \in {FlatKey(r, "efficiency") : r \in Roles} -> 70
          [] k \in {FlatKey(r, "coherence_time") : r \in Roles} -> 2
          [] k \in {FlatKey(r, "wavelength") : r \in Roles} -> 600]
FlatChoices ==
    {[k \in K |-> FlatValues[k]] :
        K \in {{}, LegacyKeys} \cup {{k} : k \in LegacyKeys}}
ParamConfigs ==
    {[Config(ns, <<>>, <<>>, None, None) EXCEPT !.templates = tm] :
        ns \in ParamNodes, tm \in ParamTemplates}

\* edits of const_topo: up to MaxMoved members added to MIDPOINT_NODE_TYPES,
\* up to MaxMoved dropped from ENDPOINT_NODE_TYPES, BSM_NODE added to it or
\* not; the module is then imported and an empty topology built
AtMost(S, n) == {A \in SUBSET S : Cardinality(A) <= n}
Classifications ==
    {[midpoint |-> MIDPOINT_NODE_TYPES \cup added,
      endpoint |-> (ENDPOINT_NODE_TYPES \ dropped) \cup both,
      outcome |-> ""] :
        added \in AtMost(ENDPOINT_NODE_TYPES, MaxMoved),
        dropped \in AtMost(ENDPOINT_NODE_TYPES, MaxMoved),
        both \in {{}, {BSM_NODE}}}
EmptyConfig == Config(<<>>, <<>>, <<>>, Some(<<>>), None)

\* CreateTopo.__init__: the config dict holds the caller's nodes list itself,
\* and "x or []" holds the caller's list x unless it is None or empty
OrEmptyList(arg) == IF arg = None \/ arg[1] = <<>> THEN Some(<<>>) ELSE arg
IsCallersList(arg) == arg # None /\ arg[1] # <<>>
CreateTopoConfig(node_list, tmpls, qconns, cconns, qchans, cchans) ==
    [nodes |-> node_list, templates |-> tmpls,
     qconnections |-> qconns, cconnections |-> cconns,
     qchannels |-> OrEmptyList(qchans), cchannels |-> OrEmptyList(cchans)]
\* the caller's list as it stands, given the list the config dict holds
CallersList(arg, held) == IF IsCallersList(arg) THEN held ELSE arg
\* what the second construction is compared on
Summary ==
    [names |-> [i \in DOMAIN RegistryObjects(nodes) |-> RegistryObjects(nodes)[i].name],
     map |-> bsm_to_router_map, nq |-> Len(qchannels), nc |-> Len(cchannels)]
FromFile == [entry |-> "file", run |-> 1, args |-> <<>>, first |-> <<>>]

\* CreateTopo(impl = BsmNetworkImpl(), node_types = RouterNetTopo.NODE_TYPES,
\* ...): two routers, alone or with a user-declared midpoint and its two
\* quantum channels, with or without a connection to expand
CreateArgs ==
    {[nodes |-> ns[1], qchannels |-> ns[2], cchannels |-> cc, qconnections |-> qs] :
        ns \in {<<Routers(<<"a", "b">>), None>>,
                <<Routers(<<"a", "b">>), Some(<<>>)>>,
                <<Routers(<<"a", "b">>) \o <<NodeDecl("M", BSM_NODE, 3)>>,
                  Some(<<QChannelDecl(None, "a", "M", 4, 1),
                         QChannelDecl(None, "b", "M", 6, 1)>>)>>},
        cc \in {None, Some(<<CChannelDecl(None, "a", "b", Some(5), None)>>)},
        qs \in {<<>>, <<QConnect("a", "b", 8, MEET_IN_THE_MID, None, None)>>}}
CreateConfig(args) ==
    CreateTopoConfig(args.nodes, EmptyConfig.templates, args.qconnections,
                     <<CConnect("a", "b", None, Some(10))>>,
                     args.qchannels, args.cchannels)

\* before any inference method was called
NotCalled == [op |-> "", total_wires |-> 0, result |-> <<>>, err |-> ""]

\* DQC inference: up to MaxDqcNodes compute nodes with n_data absent, 0 or
\* 2, alone or with the first two joined by a meet-in-the-middle connection
NDataChoices == {None, Some(0), Some(2)}
DqcNode(name, seed, n_data) ==
    IF n_data = None THEN NodeDecl(name, DQC_NODE, seed)
    ELSE NodeDecl(name, DQC_NODE, seed) @@ [n_data |-> n_data[1]]
DqcConfigs ==
    {Config([i \in 1..k |-> DqcNode(NameSeq[i], i, nd[i])], qs,
            IF k = 1 THEN <<>> ELSE <<CConnect("a", "b", None, Some(10))>>,
            Some(<<>>), None) :
        <<k, nd, qs>> \in
            UNION {{<<n, f, q>> : f \in [1..n -> NDataChoices],
                      q \in IF n = 1 THEN {<<>>}
                            ELSE {<<>>, <<QConnect("a", "b", 8, MEET_IN_THE_MID,
                                                   None, None)>>}} :
                      n \in 1..MaxDqcNodes}}

\* the config families, built on the shipped classification
InitFamilies ==
    \/ topo = "RouterNetTopo" /\ routing \in {"static", "distributed"}
       /\ config \in ExpandConfigs /\ flat = <<>>
    \/ topo = "RouterNetTopo" /\ routing = "static" /\ config \in ChainConfigs
       /\ flat = <<>>
    \/ topo = "QlanStarTopo" /\ routing = "static" /\ config \in ParamConfigs
       /\ flat \in FlatChoices
    \/ topo = "DQCNetTopo" /\ routing = "static" /\ config \in DqcConfigs
       /\ flat = <<>>
    \/ topo \in {"RouterNetTopo", "QlanStarTopo"} /\ routing = "static"
       /\ config \in NodeConfigs(topo) /\ flat = <<>>
    \/ topo \in {"RouterNetTopo", "QlanStarTopo"}
       /\ routing \in (IF topo = "QlanStarTopo" THEN {"static"}
                       ELSE {"static", "distributed"})
       /\ config \in ChannelConfigs(topo) /\ flat = <<>>
    \/ topo \in {"RouterNetTopo", "DQCNetTopo"}
       /\ routing \in (IF topo = "DQCNetTopo" THEN {"static"}
                       ELSE {"static", "distributed"})
       /\ config \in (IF topo = "DQCNetTopo"
                      THEN {[c EXCEPT !.nodes = [i \in DOMAIN @ |->
                                 [@[i] EXCEPT !.type = DQC_NODE]]] :
                            c \in {x \in RouteConfigs : Len(x.qconnections) <= 1}}
                      ELSE RouteConfigs)
       /\ flat = <<>>

Init ==
    /\ \/ topo = "RouterNetTopo" /\ routing = "static" /\ config = EmptyConfig
          /\ flat = <<>> /\ classified \in Classifications
          /\ create = FromFile
       \/ classified = Shipped /\ create = FromFile /\ InitFamilies
       \/ /\ classified = Shipped /\ topo = "RouterNetTopo" /\ routing = "static"
          /\ flat = <<>>
          /\ \E args \in CreateArgs :
                /\ config = CreateConfig(args)
                /\ create = [entry |-> "CreateTopo", run |-> 1, args |-> args,
                             first |-> <<>>]
    /\ loaded = config
    /\ hw = NoHw
    /\ inferred = NotCalled
    /\ pc = "get_templates"
    /\ qi = 1
    /\ error = ""
    /\ templates = <<>>
    /\ node_kwargs = <<>>
    /\ tl = NoTimeline
    /\ bsm_to_router_map = <<>>
    /\ ordered_configs = <<>>
    /\ nodes = <<>>
    /\ bsm_adjacency = {}
    /\ qchannels = <<>>
    /\ cchannels = <<>>
    /\ remote_memories = <<>>
    /\ forwarding = <<>>
    /\ link_cost = {}
    /\ rp_inits = <<>>

----------------------------------------------------------------------------
(* Topology._run_pipeline: one action per stage, in the order of the       *)
(* calls.  An exception leaves the pipeline (pc = "failed") with the       *)
(* object's attributes as they were when it was raised.                    *)

Fail(e) == pc' = "failed" /\ error' = e

\* import of sequence.topology.const_topo: the check of the classification
\* runs once; a TypeError leaves nothing to build a topology with
ImportConstTopo ==
    /\ classified.outcome = ""
    /\ classified' = [classified EXCEPT !.outcome = ImportOutcome(classified)]
    /\ UNCHANGED <<topo, routing, loaded, flat, inferred, create, hw, config, pc, qi, error,
                   templates, node_kwargs, tl, bsm_to_router_map, ordered_configs,
                   nodes, bsm_adjacency, qchannels, cchannels, remote_memories,
                   forwarding, link_cost, rp_inits>>

\* self._get_templates(config)
GetTemplates ==
    /\ pc = "get_templates"
    /\ classified.outcome = "accepted"
    /\ templates' = config.templates
    /\ pc' = "add_parameters"
    /\ UNCHANGED <<topo, routing, loaded, flat, inferred, classified, create, hw, config, qi, error, node_kwargs, tl,
                   bsm_to_router_map, ordered_configs, nodes, bsm_adjacency,
                   qchannels, cchannels, remote_memories, forwarding,
                   link_cost, rp_inits>>

\* what runs after self._add_parameters(config): self._add_qconnections,
\* whose loop has nothing to do on an empty connection list
AfterParametersUnexpanded(cfg) == "add_timeline"
AfterParameters(cfg) ==
    IF cfg.qconnections = <<>> THEN "add_timeline" ELSE "add_qconnections"

\* self._add_parameters(config): BsmNetworkImpl harvests the constructor
\* kwargs of every declared node
AddParameters ==
    /\ pc = "add_parameters"
    /\ node_kwargs' =
         IF Impl(topo) = "BsmNetworkImpl"
         THEN [i \in DOMAIN config.nodes |->
                  [key |-> config.nodes[i].name, val |-> NodeKwargs(config.nodes[i])]]
         ELSE node_kwargs
    /\ hw' = IF \E i \in DOMAIN config.nodes :
                    config.nodes[i].type \in {ORCHESTRATOR, CLIENT}
             THEN AddQlanParameters(config, flat, templates)
             ELSE hw
    /\ pc' = AfterParameters(config)
    /\ UNCHANGED <<topo, routing, loaded, flat, inferred, classified, create, config, qi, error, templates, tl,
                   bsm_to_router_map, ordered_configs, nodes, bsm_adjacency,
                   qchannels, cchannels, remote_memories, forwarding,
                   link_cost, rp_inits>>

\* what the failing "assert 0, q_connect" raises: AssertionError, or, when
\* the interpreter strips asserts (-O), the ValueError of int(nan)
NoClassicalLinkErrors == {"AssertionError", "ValueError"}

\* self._add_qconnections(config): one iteration of its loop, on the
\* q_connect at index qi, with the call of impl._handle_qconnection
AddQConnections ==
    /\ pc = "add_qconnections"
    /\ qi <= Len(config.qconnections)
    /\ LET q_connect == config.qconnections[qi]
           delays == CcDelayList(config, q_connect.node1, q_connect.node2)
       IN  IF delays = <<>>
           THEN /\ \E e \in NoClassicalLinkErrors : Fail(e)
                /\ UNCHANGED <<config, qi>>
           ELSE IF Impl(topo) # "BsmNetworkImpl"
           THEN /\ qi' = qi + 1
                /\ pc' = IF qi = Len(config.qconnections) THEN "add_timeline" ELSE pc
                /\ UNCHANGED <<config, error>>
           ELSE IF IsMeetInTheMiddle(q_connect)
           THEN /\ config' = HandleQConnection(q_connect, CcDelay(delays), config)
                /\ qi' = qi + 1
                /\ pc' = IF qi = Len(config.qconnections) THEN "add_timeline" ELSE pc
                /\ UNCHANGED error
           ELSE /\ Fail("NotImplementedError")
                /\ UNCHANGED <<config, qi>>
    /\ UNCHANGED <<topo, routing, loaded, flat, inferred, classified, create, hw, templates, node_kwargs, tl,
                   bsm_to_router_map, ordered_configs, nodes, bsm_adjacency,
                   qchannels, cchannels, remote_memories, forwarding,
                   link_cost, rp_inits>>

\* self._add_timeline(config)
AddTimeline ==
    /\ pc = "add_timeline"
    /\ tl' = NewTimeline
    /\ pc' = "map_bsm_routers"
    /\ UNCHANGED <<topo, routing, loaded, flat, inferred, classified, create, hw, config, qi, error, templates, node_kwargs,
                   bsm_to_router_map, ordered_configs, nodes, bsm_adjacency,
                   qchannels, cchannels, remote_memories, forwarding,
                   link_cost, rp_inits>>

\* self._impl._map_bsm_routers(config, self.bsm_to_router_map)
MapBsmRouters ==
    /\ pc = "map_bsm_routers"
    /\ IF Impl(topo) # "BsmNetworkImpl"
       THEN pc' = "add_nodes" /\ UNCHANGED <<bsm_to_router_map, error>>
       ELSE IF config.qchannels = None
       THEN Fail("KeyError") /\ UNCHANGED bsm_to_router_map
       ELSE /\ bsm_to_router_map' =
                  MapBsmRoutersLoop(config.qchannels[1], bsm_to_router_map)
            /\ pc' = "add_nodes"
            /\ UNCHANGED error
    /\ UNCHANGED <<topo, routing, loaded, flat, inferred, classified, create, hw, config, qi, templates, node_kwargs, tl,
                   ordered_configs, nodes, bsm_adjacency, qchannels, cchannels,
                   remote_memories, forwarding, link_cost, rp_inits>>

\* self._add_nodes(config)
AddNodes ==
    /\ pc = "add_nodes"
    /\ LET ordered == OrderedNodeDicts(topo, config.nodes)
           st == AddNodesLoop(topo,
                    [reg |-> nodes, timeline |-> tl, remote |-> remote_memories,
                     err |-> ""],
                    ordered, 1, templates, bsm_to_router_map, node_kwargs)
       IN  /\ ordered_configs' = ordered
           /\ nodes' = st.reg
           /\ tl' = st.timeline
           /\ remote_memories' = st.remote
           /\ IF st.err # "" THEN Fail(st.err)
              ELSE pc' = "add_bsm_node_to_router" /\ UNCHANGED error
    /\ UNCHANGED <<topo, routing, loaded, flat, inferred, classified, create, hw, config, qi, templates, node_kwargs,
                   bsm_to_router_map, bsm_adjacency, qchannels, cchannels,
                   forwarding, link_cost, rp_inits>>

\* self._impl._add_bsm_node_to_router(self.bsm_to_router_map, self.tl)
AddBsmNodeToRouter ==
    /\ pc = "add_bsm_node_to_router"
    /\ IF Impl(topo) # "BsmNetworkImpl"
       THEN pc' = "add_qchannels" /\ UNCHANGED <<bsm_adjacency, error>>
       ELSE LET st == AddBsmNodeToRouterLoop(bsm_to_router_map, 1, tl,
                          [adj |-> bsm_adjacency, err |-> ""])
            IN  /\ bsm_adjacency' = st.adj
                /\ IF st.err # "" THEN Fail(st.err)
                   ELSE pc' = "add_qchannels" /\ UNCHANGED error
    /\ UNCHANGED <<topo, routing, loaded, flat, inferred, classified, create, hw, config, qi, templates, node_kwargs, tl,
                   bsm_to_router_map, ordered_configs, nodes, qchannels,
                   cchannels, remote_memories, forwarding, link_cost, rp_inits>>

\* self._add_qchannels(config)
AddQChannels ==
    /\ pc = "add_qchannels"
    /\ qchannels' = AddQChannelsLoop(Get(config.qchannels, <<>>), tl, qchannels)
    /\ pc' = "add_cchannels"
    /\ UNCHANGED <<topo, routing, loaded, flat, inferred, classified, create, hw, config, qi, error, templates, node_kwargs, tl,
                   bsm_to_router_map, ordered_configs, nodes, bsm_adjacency,
                   cchannels, remote_memories, forwarding, link_cost, rp_inits>>

\* self._add_cchannels(config)
AddCChannels ==
    /\ pc = "add_cchannels"
    /\ cchannels' = AddCChannelsLoop(Get(config.cchannels, <<>>), tl, cchannels)
    /\ pc' = "add_cconnections"
    /\ UNCHANGED <<topo, routing, loaded, flat, inferred, classified, create, hw, config, qi, error, templates, node_kwargs, tl,
                   bsm_to_router_map, ordered_configs, nodes, bsm_adjacency,
                   qchannels, remote_memories, forwarding, link_cost, rp_inits>>

\* self._add_cconnections(config)
AddCConnections ==
    /\ pc = "add_cconnections"
    /\ cchannels' = AddCConnectionsLoop(config.cconnections, tl, cchannels)
    /\ pc' = "generate_forwarding_table"
    /\ UNCHANGED <<topo, routing, loaded, flat, inferred, classified, create, hw, config, qi, error, templates, node_kwargs, tl,
                   bsm_to_router_map, ordered_configs, nodes, bsm_adjacency,
                   qchannels, remote_memories, forwarding, link_cost, rp_inits>>

\* self._impl._generate_forwarding_table(config, self.nodes, self.qchannels)
GenerateForwardingTable ==
    /\ pc = "generate_forwarding_table"
    /\ IF Impl(topo) # "BsmNetworkImpl"
       THEN /\ pc' = "add_protocols"
            /\ UNCHANGED <<error, forwarding, link_cost, rp_inits>>
       ELSE IF \E i \in DOMAIN config.nodes : config.nodes[i].type \notin NodeType
       THEN Fail("ValueError") /\ UNCHANGED <<forwarding, link_cost, rp_inits>>
       ELSE
         LET costs == Costs(qchannels, <<>>)
             endpoints == EndpointObjects(nodes)
             srcs == {endpoints[i].name : i \in DOMAIN endpoints}
         IN  IF endpoints = <<>>
             THEN /\ pc' = "add_protocols"
                  /\ UNCHANGED <<error, forwarding, link_cost, rp_inits>>
             ELSE IF routing = "static"
             THEN IF \E j \in DOMAIN costs : Len(costs[j].val.routers) # 2
                  THEN Fail("ValueError")
                       /\ UNCHANGED <<forwarding, link_cost, rp_inits>>
                  ELSE LET g == AddWeightedEdges(
                                    [nodes |-> GraphNodes(config), weight |-> <<>>],
                                    costs)
                       IN  /\ \E pick \in Picks(g, StaticCalls(g, srcs)) :
                                 forwarding' = StaticTables(g, srcs, pick)
                           /\ pc' = "add_protocols"
                           /\ UNCHANGED <<error, link_cost, rp_inits>>
             ELSE LET st == SeedLinkCosts(endpoints, costs, 1, 1,
                                [lc |-> link_cost, inits |-> rp_inits, err |-> ""])
                  IN  /\ link_cost' = st.lc
                      /\ rp_inits' = st.inits
                      /\ UNCHANGED forwarding
                      /\ IF st.err # "" THEN Fail(st.err)
                         ELSE pc' = "add_protocols" /\ UNCHANGED error
    /\ UNCHANGED <<topo, routing, loaded, flat, inferred, classified, create, hw, config, qi, templates, node_kwargs, tl,
                   bsm_to_router_map, ordered_configs, nodes, bsm_adjacency,
                   qchannels, cchannels, remote_memories>>

\* self._add_protocols()
AddProtocols ==
    /\ pc = "add_protocols"
    /\ pc' = "done"
    /\ UNCHANGED <<topo, routing, loaded, flat, inferred, classified, create, hw, config, qi, error, templates, node_kwargs, tl,
                   bsm_to_router_map, ordered_configs, nodes, bsm_adjacency,
                   qchannels, cchannels, remote_memories, forwarding,
                   link_cost, rp_inits>>

\* a second CreateTopo(...) from the argument objects of the first, as they
\* stand: _setup, then _run_pipeline on a new config dict
ConstructAgain ==
    /\ create.entry = "CreateTopo" /\ create.run = 1 /\ pc = "done"
    /\ create' = [create EXCEPT !.run = 2, !.first = Summary]
    /\ config' = CreateTopoConfig(config.nodes, config.templates,
                                  config.qconnections, config.cconnections,
                                  CallersList(create.args.qchannels, config.qchannels),
                                  CallersList(create.args.cchannels, config.cchannels))
    /\ loaded' = config'
    /\ pc' = "get_templates" /\ qi' = 1 /\ error' = ""
    /\ templates' = <<>> /\ node_kwargs' = <<>> /\ hw' = NoHw
    /\ tl' = NoTimeline /\ bsm_to_router_map' = <<>> /\ ordered_configs' = <<>>
    /\ nodes' = <<>> /\ bsm_adjacency' = {} /\ remote_memories' = <<>>
    /\ qchannels' = <<>> /\ cchannels' = <<>>
    /\ forwarding' = <<>> /\ link_cost' = {} /\ rp_inits' = <<>>
    /\ UNCHANGED <<topo, routing, flat, inferred, classified>>

\* a call of topo.infer_qubit_to_node(total_wires) on the built topology
CallInferQubitToNode ==
    /\ pc = "done" /\ topo = "DQCNetTopo"
    /\ \E total_wires \in 0..MaxWires :
          LET r == InferQubitToNode(config.nodes, total_wires)
          IN  inferred' = [op |-> "infer_qubit_to_node", total_wires |-> total_wires,
                           result |-> r.mapping, err |-> r.err]
    /\ UNCHANGED <<topo, routing, loaded, flat, classified, create, hw, config, pc, qi, error, templates,
                   node_kwargs, tl, bsm_to_router_map, ordered_configs, nodes,
                   bsm_adjacency, qchannels, cchannels, remote_memories,
                   forwarding, link_cost, rp_inits>>

\* a call of topo.infer_memory_owners(total_wires, ancilla_inds)
CallInferMemoryOwners ==
    /\ pc = "done" /\ topo = "DQCNetTopo"
    /\ \E total_wires \in 0..MaxWires :
          LET r == InferMemoryOwners(config.nodes, nodes, total_wires)
          IN  inferred' = [op |-> "infer_memory_owners", total_wires |-> total_wires,
                           result |-> r.data_owners, err |-> r.err]
    /\ UNCHANGED <<topo, routing, loaded, flat, classified, create, hw, config, pc, qi, error, templates,
                   node_kwargs, tl, bsm_to_router_map, ordered_configs, nodes,
                   bsm_adjacency, qchannels, cchannels, remote_memories,
                   forwarding, link_cost, rp_inits>>

Next ==
    \/ ImportConstTopo
    \/ GetTemplates
    \/ AddParameters
    \/ AddQConnections
    \/ AddTimeline
    \/ MapBsmRouters
    \/ AddNodes
    \/ AddBsmNodeToRouter
    \/ AddQChannels
    \/ AddCChannels
    \/ AddCConnections
    \/ GenerateForwardingTable
    \/ AddProtocols
    \/ CallInferQubitToNode
    \/ CallInferMemoryOwners
    \/ ConstructAgain

Spec == Init /\ [][Next]_vars

----------------------------------------------------------------------------
(* Vocabulary of the properties below. *)

Stages == <<"get_templates", "add_parameters", "add_qconnections", "add_timeline",
            "map_bsm_routers", "add_nodes", "add_bsm_node_to_router",
            "add_qchannels", "add_cchannels", "add_cconnections",
            "generate_forwarding_table", "add_protocols", "done">>
StageIndex(p) == CHOOSE i \in DOMAIN Stages : Stages[i] = p
\* the pipeline has not failed and the stage named has returned
Past(stage) == pc # "failed" /\ StageIndex(pc) > StageIndex(stage)

IsBsm == Impl(topo) = "BsmNetworkImpl"

\* positions of the node declarations the expansion appended
AutoNodes == {i \in DOMAIN config.nodes : i > Len(loaded.nodes)}

\* the step is an iteration of the expansion loop on a connection of the
\* BSM families, and q is that connection
ExpandingQ == pc = "add_qconnections" /\ IsBsm /\ qi <= Len(config.qconnections)
CurrentQ == config.qconnections[qi]

\* the classical declarations of cfg between x and y, whichever way round
\* each names them, as a set of <<section, position>>
ClassicalLinks(cfg, x, y) ==
    {<<"cchannels", i>> : i \in {j \in DOMAIN Get(cfg.cchannels, <<>>) :
        {Get(cfg.cchannels, <<>>)[j].source,
         Get(cfg.cchannels, <<>>)[j].destination} = {x, y}}}
    \cup
    {<<"cconnections", i>> : i \in {j \in DOMAIN cfg.cconnections :
        {cfg.cconnections[j].node1, cfg.cconnections[j].node2} = {x, y}}}
LinkDecl(cfg, l) ==
    IF l[1] = "cchannels" THEN cfg.cchannels[1][l[2]] ELSE cfg.cconnections[l[2]]
\* a declaration states a delay or a distance
Measured(d) == d.delay # None \/ d.distance # None
\* its delay, or its distance over the speed of light (2e-4)
LinkDelay(d) == IF d.delay # None THEN d.delay[1] ELSE d.distance[1] * 5000
RECURSIVE SumOver(_, _)
SumOver(cfg, links) ==
    IF links = {} THEN 0
    ELSE LET l == CHOOSE l \in links : TRUE
         IN  LinkDelay(LinkDecl(cfg, l)) + SumOver(cfg, links \ {l})
\* r = floor(mean / 2) for the mean of the delays of the links
IsHalfMean(cfg, links, r) ==
    /\ links # {}
    /\ 2 * Cardinality(links) * r <= SumOver(cfg, links)
    /\ SumOver(cfg, links) < 2 * Cardinality(links) * (r + 1)

\* the last n elements of a sequence
LastN(s, n) == SubSeq(s, Len(s) - n + 1, Len(s))
IsPrefix(s, t) == Len(s) <= Len(t) /\ SubSeq(t, 1, Len(s)) = s

----------------------------------------------------------------------------
(* C1: after connection expansion and midpoint-to-endpoint mapping of a    *)
(* config whose quantum connections are all meet-in-the-middle, there are  *)
(* as many auto-generated midpoint nodes as quantum connections, and the   *)
(* map records exactly two endpoint names for each of them.                *)
C1_TwoEndpointsPerMidpoint ==
    (IsBsm /\ Past("map_bsm_routers")
       /\ \A i \in DOMAIN config.qconnections :
             config.qconnections[i].type = MEET_IN_THE_MID)
    => /\ Cardinality(AutoNodes) = Len(config.qconnections)
       /\ \A i \in AutoNodes :
             /\ config.nodes[i].name \in DictKeys(bsm_to_router_map)
             /\ Len(DictGet(bsm_to_router_map, config.nodes[i].name)) = 2

----------------------------------------------------------------------------
(* C2: expanding one meet-in-the-middle connection between a and b of      *)
(* distance d appends exactly one midpoint node declaration (named from a  *)
(* and b, seed of the connection or 0, template of the connection), two    *)
(* quantum channels a->midpoint and b->midpoint of distance floor(d/2) and *)
(* the connection's attenuation, and four classical channels, one in each  *)
(* direction between each endpoint and the midpoint, all with the computed *)
(* delay; the rest of the config is unchanged.                             *)
C2_ExpansionAppends ==
    [][(ExpandingQ /\ CurrentQ.type = MEET_IN_THE_MID /\ pc' # "failed")
       => LET q == CurrentQ
              m == "BSM." \o q.node1 \o "." \o q.node2 \o ".auto"
              newq == LastN(config'.qchannels[1], 2)
              newc == LastN(config'.cchannels[1], 4)
          IN  /\ Len(config'.nodes) = Len(config.nodes) + 1
              /\ IsPrefix(config.nodes, config'.nodes)
              /\ config'.nodes[Len(config'.nodes)].name = m
              /\ config'.nodes[Len(config'.nodes)].type = "BSMNode"
              /\ config'.nodes[Len(config'.nodes)].seed
                    = (IF q.seed = None THEN 0 ELSE q.seed[1])
              /\ config'.nodes[Len(config'.nodes)].template = q.template
              /\ Len(config'.qchannels[1]) = Len(Get(config.qchannels, <<>>)) + 2
              /\ IsPrefix(Get(config.qchannels, <<>>), config'.qchannels[1])
              /\ <<newq[1].source, newq[2].source>> = <<q.node1, q.node2>>
              /\ \A k \in 1..2 :
                    /\ newq[k].destination = m
                    /\ 2 * newq[k].distance <= q.distance
                    /\ q.distance < 2 * newq[k].distance + 2
                    /\ newq[k].attenuation = q.attenuation
              /\ Len(config'.cchannels[1]) = Len(Get(config.cchannels, <<>>)) + 4
              /\ IsPrefix(Get(config.cchannels, <<>>), config'.cchannels[1])
              /\ {<<newc[k].source, newc[k].destination>> : k \in 1..4}
                    = {<<q.node1, m>>, <<m, q.node1>>, <<q.node2, m>>, <<m, q.node2>>}
              /\ \A k \in 1..4 : newc[k].delay = newc[1].delay /\ newc[k].delay # None
              /\ config'.qconnections = config.qconnections
              /\ config'.cconnections = config.cconnections
              /\ config'.templates = config.templates
      ]_vars

\* a connection of odd distance, with a seed-less declaration, was expanded
C2_Witness ==
    /\ IsBsm /\ Past("add_qconnections")
    /\ \E i \in DOMAIN config.qconnections :
          /\ config.qconnections[i].distance = 5
          /\ config.qconnections[i].seed = None
    /\ \E j \in DOMAIN Get(config.qchannels, <<>>) : config.qchannels[1][j].distance = 2
    /\ \E j \in AutoNodes : config.nodes[j].seed = 7

----------------------------------------------------------------------------
(* C3: the delay of the classical channels derived for a quantum           *)
(* connection between a and b is floor(mean(D) / 2), D holding one value   *)
(* per classical-channel and classical-connection declaration between a    *)
(* and b in either order: its delay, else its distance over the speed of   *)
(* light.                                                                  *)
C3_DerivedDelay ==
    [][(ExpandingQ /\ CurrentQ.type = MEET_IN_THE_MID /\ pc' # "failed"
          /\ \A l \in ClassicalLinks(config, CurrentQ.node1, CurrentQ.node2) :
                Measured(LinkDecl(config, l)))
       => LET links == ClassicalLinks(config, CurrentQ.node1, CurrentQ.node2)
              newc == LastN(config'.cchannels[1], 4)
          IN  \A k \in 1..4 :
                 newc[k].delay # None /\ IsHalfMean(config, links, newc[k].delay[1])
      ]_vars

\* a delay was derived from two declarations naming the pair in opposite
\* orders, one by delay and one by distance
C3_Witness ==
    /\ IsBsm /\ Past("add_qconnections")
    /\ loaded.cchannels = Some(<<CChannelDecl(Some("up"), "b", "a", Some(1), None)>>)
    /\ loaded.cconnections = <<CConnect("a", "b", None, Some(10))>>
    /\ Len(loaded.qconnections) = 1 /\ loaded.qconnections[1].node1 = "a"
    /\ config.cchannels[1][Len(config.cchannels[1])].delay = Some(1252)

----------------------------------------------------------------------------
(* C4: a quantum connection whose endpoint pair has no classical-channel   *)
(* and no classical-connection declaration makes the expansion fail with a *)
(* fatal error at that connection; nothing is appended to the config for   *)
(* it, and no later stage of the pipeline runs.                            *)
C4_NoClassicalLinkIsFatal ==
    [][/\ (pc = "add_qconnections" /\ qi <= Len(config.qconnections)
             /\ ClassicalLinks(config, CurrentQ.node1, CurrentQ.node2) = {})
          => /\ pc' = "failed"
             /\ error' \in {"AssertionError", "ValueError"}
             /\ config' = config
             /\ <<tl, nodes, qchannels, cchannels, forwarding>>'
                   = <<NoTimeline, <<>>, <<>>, <<>>, <<>>>>
       /\ pc = "failed" => UNCHANGED vars
      ]_vars

\* the second connection of a config failed for want of a classical link,
\* after the first one had been expanded
C4_Witness ==
    /\ pc = "failed" /\ error = "AssertionError" /\ qi = 2
    /\ config.qconnections[2].type = MEET_IN_THE_MID
    /\ ClassicalLinks(config, config.qconnections[2].node1,
                      config.qconnections[2].node2) = {}
    /\ Len(config.nodes) = Len(loaded.nodes) + 1
    /\ ~tl.created

----------------------------------------------------------------------------
(* C5 as stated: a quantum connection of any kind other than               *)
(* meet-in-the-middle makes the expansion fail with the                    *)
(* unsupported-connection-kind error, with nothing appended for it.        *)
C5_Original ==
    [][(ExpandingQ /\ CurrentQ.type # MEET_IN_THE_MID)
       => /\ pc' = "failed"
          /\ error' = "NotImplementedError"
          /\ config' = config
      ]_vars

(* C5: a quantum connection of a kind other than meet-in-the-middle makes  *)
(* the expansion fail, nothing being appended for it and the pipeline      *)
(* stopping; the error is the unsupported-connection-kind error when the   *)
(* endpoint pair has a classical declaration, and the missing-classical-   *)
(* link error when it has none, since the delay is computed first.         *)
C5_UnsupportedKind ==
    [][(ExpandingQ /\ CurrentQ.type # MEET_IN_THE_MID)
       => /\ pc' = "failed"
          /\ config' = config
          /\ ~tl'.created /\ nodes' = <<>>
          /\ IF ClassicalLinks(config, CurrentQ.node1, CurrentQ.node2) # {}
             THEN error' = "NotImplementedError"
             ELSE error' \in {"AssertionError", "ValueError"}
      ]_vars

\* a connection of an unsupported kind between a linked pair was rejected
\* after a supported one had been expanded
C5_Witness ==
    /\ pc = "failed" /\ error = "NotImplementedError" /\ qi = 2
    /\ config.qconnections[2].type = "direct"
    /\ ClassicalLinks(config, config.qconnections[2].node1,
                      config.qconnections[2].node2) # {}
    /\ Len(config.nodes) = Len(loaded.nodes) + 1

----------------------------------------------------------------------------
(* Node construction. *)

\* the declaration at position i names a type that is neither the midpoint
\* type nor a key of the family's NODE_TYPES
Unregistered(i) ==
    config.nodes[i].type \notin (MIDPOINT_NODE_TYPES \cup NODE_TYPES(topo))
\* node construction is about to run on a list whose first declaration that
\* cannot be built is one of an unregistered type
FirstFailureUnregistered ==
    /\ pc = "add_nodes" /\ IsBsm
    /\ \E i \in DOMAIN config.nodes :
          /\ Unregistered(i)
          /\ \A j \in 1..(i - 1) :
                /\ ~Unregistered(j)
                /\ config.nodes[j].type \notin MIDPOINT_NODE_TYPES
                /\ \A k \in 1..(j - 1) : config.nodes[k].name # config.nodes[j].name

(* C6: in the relay-midpoint families, constructing a node whose declared  *)
(* type is not the midpoint type and is not a key of NODE_TYPES fails at   *)
(* that node's construction with the unregistered-node-type error, for     *)
(* every such type string.                                                 *)
C6_UnregisteredTypeError ==
    [][FirstFailureUnregistered
       => pc' = "failed" /\ error' = "NotImplementedError"
      ]_vars

(* C7: when node construction fails on a declaration of an unregistered    *)
(* type, the topology holds no node object in its registry and no quantum  *)
(* or classical channel object, wherever the declaration sits in the list. *)
C7_NoPartialTopology ==
    [][(FirstFailureUnregistered /\ pc' = "failed"
          /\ error' = "NotImplementedError")
       => /\ nodes' = <<>>
          /\ qchannels' = <<>>
          /\ cchannels' = <<>>
      ]_vars

----------------------------------------------------------------------------
(* Iteration order of the star family. *)

IsQlan == Impl(topo) = "QlanNetworkImpl"
\* node construction has been entered: the iteration order is fixed
Ordered == tl.created /\ pc \notin {"map_bsm_routers", "add_nodes"}

Bijections(n) == {f \in [1..n -> 1..n] : \A i, j \in 1..n : f[i] = f[j] => i = j}
\* out is a rearrangement of in that sorts by rank and keeps the order of
\* in among declarations of equal rank
StableGrouping(in, out, rank(_)) ==
    /\ Len(out) = Len(in)
    /\ \E f \in Bijections(Len(in)) :
          /\ \A i \in 1..Len(in) : out[i] = in[f[i]]
          /\ \A i, j \in 1..Len(in) :
                i < j => \/ rank(out[i]) < rank(out[j])
                         \/ rank(out[i]) = rank(out[j]) /\ f[i] < f[j]

ClientsOthersOrchestrators(d) ==
    IF d.type = CLIENT THEN 0 ELSE IF d.type = ORCHESTRATOR THEN 2 ELSE 1
OthersClientsOrchestrators(d) ==
    IF d.type = CLIENT THEN 1 ELSE IF d.type = ORCHESTRATOR THEN 2 ELSE 0

(* C8 as stated: the star family iterates the node declarations in the     *)
(* order clients, other types, orchestrators, keeping declaration order    *)
(* within each group and neither dropping nor duplicating a declaration.   *)
C8_Original ==
    (IsQlan /\ Ordered)
    => StableGrouping(config.nodes, ordered_configs, ClientsOthersOrchestrators)

(* C8: the star family iterates the node declarations in the order: other  *)
(* types, then clients, then orchestrators, keeping declaration order      *)
(* within each group and neither dropping nor duplicating a declaration.   *)
C8_IterationOrder ==
    (IsQlan /\ Ordered)
    => StableGrouping(config.nodes, ordered_configs, OthersClientsOrchestrators)

\* a list declared as orchestrator, client, other was reordered
C8_Witness ==
    /\ IsQlan /\ Ordered
    /\ Len(config.nodes) = 3
    /\ <<config.nodes[1].type, config.nodes[2].type, config.nodes[3].type>>
          = <<ORCHESTRATOR, CLIENT, QUANTUM_ROUTER>>
    /\ <<ordered_configs[1].name, ordered_configs[2].name, ordered_configs[3].name>>
          = <<config.nodes[3].name, config.nodes[2].name, config.nodes[1].name>>

----------------------------------------------------------------------------
(* Channel installation. *)

\* the names of the instantiated nodes
Instantiated == Range(tl.entities)

Ends(objs) == [i \in DOMAIN objs |-> <<objs[i].sender, objs[i].receiver>>]

\* the <<source, destination>> of the declarations whose source is instantiated
RECURSIVE DeclaredFromInstantiated(_)
DeclaredFromInstantiated(decls) ==
    IF decls = <<>> THEN <<>>
    ELSE (IF decls[1].source \in Instantiated
          THEN << <<decls[1].source, decls[1].destination>> >> ELSE <<>>)
         \o DeclaredFromInstantiated(Tail(decls))

\* the directions of the classical connections whose sending end is instantiated
RECURSIVE DirectionsFromInstantiated(_)
DirectionsFromInstantiated(conns) ==
    IF conns = <<>> THEN <<>>
    ELSE (IF conns[1].node1 \in Instantiated
          THEN << <<conns[1].node1, conns[1].node2>> >> ELSE <<>>)
         \o (IF conns[1].node2 \in Instantiated
             THEN << <<conns[1].node2, conns[1].node1>> >> ELSE <<>>)
         \o DirectionsFromInstantiated(Tail(conns))

(* C9: channel installation creates exactly one channel object for each    *)
(* quantum-channel or classical-channel declaration whose source names an  *)
(* instantiated node and one for each direction of a classical connection  *)
(* whose sending end is instantiated; a declaration or direction whose     *)
(* source is not in the timeline creates no object and raises no error,    *)
(* and the destination need not exist.                                     *)
C9_ChannelInstallation ==
    [][/\ pc = "add_qchannels"
          => /\ pc' = "add_cchannels"
             /\ Ends(qchannels')
                   = DeclaredFromInstantiated(Get(config.qchannels, <<>>))
             /\ cchannels' = cchannels
       /\ pc = "add_cchannels"
          => /\ pc' = "add_cconnections"
             /\ Ends(cchannels')
                   = DeclaredFromInstantiated(Get(config.cchannels, <<>>))
             /\ qchannels' = qchannels
       /\ pc = "add_cconnections"
          => /\ pc' = "generate_forwarding_table"
             /\ IsPrefix(cchannels, cchannels')
             /\ Ends(SubSeq(cchannels', Len(cchannels) + 1, Len(cchannels')))
                   = DirectionsFromInstantiated(config.cconnections)
             /\ qchannels' = qchannels
      ]_vars

\* installation went through a quantum channel to a node that does not
\* exist, a declaration from a node that does not exist, and a classical
\* connection with one end missing
C9_Witness ==
    /\ Past("add_cconnections")
    /\ \E i \in DOMAIN qchannels : qchannels[i].receiver \notin Instantiated
    /\ \E i \in DOMAIN config.qchannels[1] :
          config.qchannels[1][i].source \notin Instantiated
    /\ \E i \in DOMAIN config.cchannels[1] :
          config.cchannels[1][i].source \notin Instantiated
    /\ \E i \in DOMAIN config.cconnections :
          /\ config.cconnections[i].node1 \in Instantiated
          /\ config.cconnections[i].node2 \notin Instantiated
    /\ Len(qchannels) = 1 /\ Len(cchannels) = 1

----------------------------------------------------------------------------
(* Static forwarding. *)

\* the cost graph the generator built
CostGraph ==
    AddWeightedEdges([nodes |-> GraphNodes(config), weight |-> <<>>],
                     Costs(qchannels, <<>>))

\* the total weights of the walks of at most k edges from s to d
RECURSIVE WalkWeights(_, _, _, _)
WalkWeights(g, s, d, k) ==
    (IF s = d THEN {0} ELSE {})
    \cup (IF k = 0 THEN {}
          ELSE UNION {{g.weight[{s, n}] + w : w \in WalkWeights(g, n, d, k - 1)} :
                         n \in {x \in g.nodes : {s, x} \in DOMAIN g.weight}})
Least(S) == CHOOSE x \in S : \A y \in S : x <= y
Reachable(g, s, d) == WalkWeights(g, s, d, Cardinality(g.nodes)) # {}
Distance(g, s, d) == Least(WalkWeights(g, s, d, Cardinality(g.nodes)))

(* C10: under centralized routing, after forwarding generation a           *)
(* non-midpoint node s holds a rule for a non-midpoint destination d # s   *)
(* iff d is reachable from s in the cost graph, and the rule's next hop is *)
(* the second node of a path of least total distance from s to d, whether  *)
(* the path was computed from s to d or reversed from the one computed     *)
(* from the smaller name to the larger.                                    *)
C10_StaticNextHop ==
    (IsBsm /\ routing = "static" /\ Past("generate_forwarding_table"))
    => LET g == CostGraph
       IN  \A s \in GraphNodes(config) :
              /\ s \in DOMAIN forwarding
              /\ \A d \in GraphNodes(config) \ {s} :
                    /\ d \in DOMAIN forwarding[s] <=> Reachable(g, s, d)
                    /\ d \in DOMAIN forwarding[s]
                         => LET hop == forwarding[s][d]
                            IN  /\ {s, hop} \in DOMAIN g.weight
                                /\ Reachable(g, hop, d)
                                /\ g.weight[{s, hop}] + Distance(g, hop, d)
                                      = Distance(g, s, d)

\* on the chain a - b - c - d the rule of d for a came from the reversed
\* path and the rule of a for d from the computed one
C10_Witness ==
    /\ IsBsm /\ routing = "static" /\ Past("generate_forwarding_table")
    /\ DOMAIN forwarding = {"a", "b", "c", "d"}
    /\ DOMAIN CostGraph.weight = {{"a", "b"}, {"b", "c"}, {"c", "d"}}
    /\ forwarding["d"]["a"] = "c"
    /\ forwarding["a"]["d"] = "b"

----------------------------------------------------------------------------
(* Linear chains. *)

\* cfg declares routers n1 .. nN of distinct names and exactly the
\* meet-in-the-middle connections n1 - n2, ..., n(N-1) - nN, in that order,
\* each pair having a classical declaration to take its delay from
IsChain(cfg) ==
    /\ Len(cfg.nodes) >= 2
    /\ \A i \in DOMAIN cfg.nodes : cfg.nodes[i].type = QUANTUM_ROUTER
    /\ \A i, j \in DOMAIN cfg.nodes : cfg.nodes[i].name = cfg.nodes[j].name => i = j
    /\ Len(cfg.qconnections) = Len(cfg.nodes) - 1
    /\ \A i \in DOMAIN cfg.qconnections :
          /\ cfg.qconnections[i].type = MEET_IN_THE_MID
          /\ {cfg.qconnections[i].node1, cfg.qconnections[i].node2}
                = {cfg.nodes[i].name, cfg.nodes[i + 1].name}
          /\ ClassicalLinks(cfg, cfg.nodes[i].name, cfg.nodes[i + 1].name) # {}

\* the forwarding tables a chain calls for: towards the destination's side
ChainTables(cfg) ==
    [s \in {cfg.nodes[i].name : i \in DOMAIN cfg.nodes} |->
        LET i == CHOOSE i \in DOMAIN cfg.nodes : cfg.nodes[i].name = s
        IN  [d \in {cfg.nodes[j].name : j \in DOMAIN cfg.nodes \ {i}} |->
                LET j == CHOOSE j \in DOMAIN cfg.nodes : cfg.nodes[j].name = d
                IN  cfg.nodes[IF j > i THEN i + 1 ELSE i - 1].name]]

(* C11: for a linear chain of N endpoint nodes joined pairwise by          *)
(* meet-in-the-middle connections under centralized routing, the pipeline  *)
(* gives every node a rule for every other node whose next hop is the      *)
(* chain neighbour on the destination's side, whatever the node names and  *)
(* the link distances.                                                     *)
C11_ChainForwarding ==
    (topo = "RouterNetTopo" /\ routing = "static" /\ IsChain(loaded))
    => /\ pc # "failed"
       /\ Past("generate_forwarding_table") => forwarding = ChainTables(loaded)

----------------------------------------------------------------------------
(* Distributed routing. *)

\* the names of the non-midpoint node objects
EndpointNames == {o.name : o \in Range(EndpointObjects(nodes))}

\* the quantum-channel objects received by m
ChannelsTo(m) == {i \in DOMAIN qchannels : qchannels[i].receiver = m}
\* m joins r to o: its channels are one from r and one from o
Joins(m, r, o) ==
    /\ r # o
    /\ Cardinality(ChannelsTo(m)) = 2
    /\ {qchannels[i].sender : i \in ChannelsTo(m)} = {r, o}
JoinCost(m) ==
    LET i == CHOOSE i \in ChannelsTo(m) : TRUE
        j == CHOOSE j \in ChannelsTo(m) \ {i} : TRUE
    IN  qchannels[i].distance + qchannels[j].distance
Midpoints == {qchannels[i].receiver : i \in DOMAIN qchannels}

\* the link-cost table of r, as a set of <<neighbour, cost>>
LinkCostOf(r) == {<<t[2], t[3]>> : t \in {x \in link_cost : x[1] = r}}

\* cfg is a star: its first node is joined to each of the others by one
\* meet-in-the-middle connection, and there is no other connection
IsStar(cfg) ==
    /\ Len(cfg.nodes) >= 2
    /\ Len(cfg.qconnections) = Len(cfg.nodes) - 1
    /\ \A i \in 2..Len(cfg.nodes) :
          \E k \in DOMAIN cfg.qconnections :
             /\ cfg.qconnections[k].type = MEET_IN_THE_MID
             /\ {cfg.qconnections[k].node1, cfg.qconnections[k].node2}
                   = {cfg.nodes[1].name, cfg.nodes[i].name}

(* C12: under distributed routing each non-midpoint node's link-cost table *)
(* ends with, for each midpoint joining it to another endpoint, an entry   *)
(* keyed by that endpoint whose value is the sum of the two                *)
(* endpoint->midpoint channel distances; in a star the center has one      *)
(* entry per leaf and each leaf exactly one, for the center, equal to the  *)
(* sum of the two half-distances of its connection.                        *)
C12_LinkCosts ==
    (IsBsm /\ routing = "distributed" /\ Past("generate_forwarding_table"))
    => /\ \A r \in EndpointNames : \A m \in Midpoints : \A o \in EndpointNames :
             Joins(m, r, o) => <<o, JoinCost(m)>> \in LinkCostOf(r)
       /\ IsStar(loaded)
             => LET center == loaded.nodes[1].name
                IN  /\ Cardinality(LinkCostOf(center)) = Len(loaded.nodes) - 1
                    /\ \A k \in DOMAIN loaded.qconnections :
                          LET q == loaded.qconnections[k]
                              leaf == IF q.node1 = center THEN q.node2 ELSE q.node1
                          IN  LinkCostOf(leaf)
                                 = {<<center, 2 * (q.distance \div 2)>>}

----------------------------------------------------------------------------
(* Template resolution. *)

\* the mapping the template section of the loaded config registers for the
\* declaration d: empty when d has no reference or names no template
Registered(d) ==
    IF d.template # None /\ d.template[1] \in DOMAIN loaded.templates
    THEN loaded.templates[d.template[1]]
    ELSE <<>>
NodeObjects == Range(RegistryObjects(nodes))
\* the declaration obj was built from: the first of its name in iteration order
DeclarationOf(obj) ==
    ordered_configs[CHOOSE i \in DOMAIN ordered_configs :
        /\ ordered_configs[i].name = obj.name
        /\ \A j \in 1..(i - 1) : ordered_configs[j].name # obj.name]

(* C13: template resolution gives a node the component-kind -> parameter   *)
(* mapping registered under its template reference, and the empty mapping *)
(* (no error) when the node has no reference or the reference names no     *)
(* template; it never modifies the template section, so two nodes with the *)
(* same reference are given equal mappings.                                *)
C13_TemplateResolution ==
    /\ config.templates = loaded.templates
    /\ pc # "get_templates" => templates = loaded.templates
    /\ \A obj \in NodeObjects :
          /\ obj.name \in {ordered_configs[i].name : i \in DOMAIN ordered_configs}
          /\ obj.template = Registered(DeclarationOf(obj))
    /\ \A o1, o2 \in NodeObjects :
          DeclarationOf(o1).template = DeclarationOf(o2).template
          => o1.template = o2.template
    /\ (topo = "QlanStarTopo" /\ loaded.qconnections = <<>>
          /\ \A i \in DOMAIN loaded.nodes :
                loaded.nodes[i].type \in {CLIENT, ORCHESTRATOR})
       => pc # "failed"

\* a run built a node from a registered template, one from a reference that
\* names no template and one without a reference
C13_Witness ==
    /\ pc = "done"
    /\ \E o1, o2, o3 \in NodeObjects :
          /\ DeclarationOf(o1).template = Some("t2")
          /\ o1.template = [MemoryArray |-> [fidelity |-> 80]]
          /\ DeclarationOf(o2).template = Some("t3")
          /\ o2.template = <<>>
          /\ DeclarationOf(o3).template = None
          /\ o3.template = <<>>

----------------------------------------------------------------------------
(* Hardware parameters of the star family. *)

\* parameter reading has run on a config that declares star-family nodes
StarParametersRead ==
    /\ topo = "QlanStarTopo" /\ pc \notin {"get_templates", "add_parameters"}
    /\ \E i \in DOMAIN loaded.nodes : loaded.nodes[i].type \in {ORCHESTRATOR, CLIENT}

(* C14: for the star family the legacy flat dialect is selected whenever   *)
(* any one of the legacy flat hardware keys (memo_* for the orchestrator   *)
(* or the client role) is present at the top level of the config, and the  *)
(* templated dialect only when none of them is present.                    *)
C14_DialectSelection ==
    StarParametersRead
    => /\ AnyLegacyKey(flat) => hw.dialect = "legacy"
       /\ ~AnyLegacyKey(flat) => hw.dialect = "templated"

RoleOf(obj) == IF obj.type = ORCHESTRATOR THEN "orch" ELSE "client"
StarObjects == {o \in NodeObjects : o.type \in {ORCHESTRATOR, CLIENT}}

\* the config is in the legacy flat dialect: it carries every legacy key and
\* no node refers to a template
LegacyFlat ==
    /\ DOMAIN flat = LegacyKeys
    /\ \A i \in DOMAIN loaded.nodes : loaded.nodes[i].template = None
\* the memory parameters the node of a role is constructed with from the
\* templated config of the same values: every node of the role refers to a
\* template whose MemoryArray carries the role's values
TemplatedTwinMemory(role) ==
    QlanMemory([MemoryArray |-> [p \in Params |-> flat[FlatKey(role, p)]]])

(* C15: a legacy-flat config and a templated config that carry the same    *)
(* hardware values per role (fidelity, frequency, efficiency, coherence    *)
(* time, wavelength, for orchestrator and for client) yield orchestrator   *)
(* and client nodes constructed with identical memory parameters.          *)
C15_DialectsAgree ==
    (topo = "QlanStarTopo" /\ LegacyFlat /\ Past("add_nodes"))
    => \A o \in StarObjects : o.memory = TemplatedTwinMemory(RoleOf(o))

\* the value the precedence rule gives parameter p of the node built from d
ByPrecedence(d, role, p) ==
    LET memo_arr == DictGetOr(Registered(d), "MemoryArray", <<>>)
    IN  IF p \in DOMAIN memo_arr THEN memo_arr[p]
        ELSE IF FlatKey(role, p) \in DOMAIN flat THEN flat[FlatKey(role, p)]
        ELSE Default(p)

(* C16: each hardware parameter a node is built with is taken from the     *)
(* node's own referenced template when that template defines it, otherwise *)
(* from the family's flat legacy top-level key when that key is present,   *)
(* otherwise from the built-in default (fidelity 0.9, frequency 2000,      *)
(* efficiency 1, coherence time -1, wavelength 500).                       *)
C16_Precedence ==
    (topo = "QlanStarTopo" /\ Past("add_nodes"))
    => \A o \in StarObjects : \A p \in Params :
          o.memory[p] = ByPrecedence(DeclarationOf(o), RoleOf(o), p)

----------------------------------------------------------------------------
(* Node names. *)

UniquelyNamed(node_list) ==
    \A i, j \in DOMAIN node_list : node_list[i].name = node_list[j].name => i = j

(* C17: after connection expansion every node declaration has a distinct   *)
(* name: for any quantum connections over uniquely named user nodes, an    *)
(* auto-generated midpoint name equals neither the name of a user-declared *)
(* node nor the name of another auto-generated midpoint.                   *)
C17_DistinctNames ==
    (IsBsm /\ UniquelyNamed(loaded.nodes) /\ Past("add_qconnections"))
    => UniquelyNamed(config.nodes)

----------------------------------------------------------------------------
(* Wire inference of the DQC family                                        *)

\* the data qubits a declaration asks for: its n_data, one when it has none
DeclaredData(nd) == IF "n_data" \in DOMAIN nd THEN nd.n_data ELSE 1
\* the data qubits of the first i declarations of a node list
RECURSIVE DataUpTo(_, _)
DataUpTo(node_list, i) ==
    IF i = 0 THEN 0
    ELSE DataUpTo(node_list, i - 1) + DeclaredData(node_list[i])
\* the wires of the i-th declaration: the next DeclaredData of them
WiresOf(node_list, i) ==
    DataUpTo(node_list, i - 1) .. (DataUpTo(node_list, i) - 1)
\* a key/value list read as a function from its keys
AsFunction(d) == [k \in DictKeys(d) |-> DictGet(d, k)]
HasDistinctKeys(d) == \A i, j \in DOMAIN d : d[i].key = d[j].key => i = j

\* C18: infer_qubit_to_node(total_wires) returns a map whose keys are exactly
\* 0..total_wires-1 and that gives each node of the node list, in list
\* order, n_data (default 1) consecutive wires; when the summed n_data
\* differs from total_wires it raises ValueError and returns no map.
C18_QubitToNode ==
    inferred.op = "infer_qubit_to_node" =>
        LET node_list == config.nodes
            total_wires == inferred.total_wires
        IN  IF DataUpTo(node_list, Len(node_list)) = total_wires
            THEN /\ inferred.err = ""
                 /\ HasDistinctKeys(inferred.result)
                 /\ DictKeys(inferred.result) = 0..(total_wires - 1)
                 /\ \A i \in DOMAIN node_list : \A w \in WiresOf(node_list, i) :
                        AsFunction(inferred.result)[w] = node_list[i].name
            ELSE /\ inferred.err = "ValueError"
                 /\ inferred.result = <<>>

\* a map was returned that gives two wires to one node and the one after
\* them to a node that declares no n_data
C18_Witness ==
    /\ inferred.op = "infer_qubit_to_node"
    /\ inferred.err = ""
    /\ \E i, j \in DOMAIN config.nodes :
          /\ i < j
          /\ "n_data" \in DOMAIN config.nodes[i] /\ config.nodes[i].n_data = 2
          /\ "n_data" \notin DOMAIN config.nodes[j]
          /\ WiresOf(config.nodes, j) # {}
          /\ \A w \in WiresOf(config.nodes, j) :
                AsFunction(inferred.result)[w] = config.nodes[j].name

\* C19: infer_memory_owners returns normally whenever infer_qubit_to_node
\* does, and its result maps every node name to the wires that node owns,
\* each wire mapped to a slot, the slots of one node being 0, 1, 2, ... in
\* increasing wire order.
C19_MemoryOwners ==
    inferred.op = "infer_memory_owners" =>
        LET found == InferQubitToNode(config.nodes, inferred.total_wires)
            owned(name) == {w \in DictKeys(found.mapping) :
                               AsFunction(found.mapping)[w] = name}
        IN  found.err = "" =>
              /\ inferred.err = ""
              /\ DictKeys(inferred.result) = {obj.name : obj \in NodeObjects}
              /\ \A name \in DictKeys(inferred.result) :
                    LET slots == DictGet(inferred.result, name)
                    IN  /\ DictKeys(slots) = owned(name)
                        /\ \A w \in owned(name) :
                              AsFunction(slots)[w] =
                                  Cardinality({v \in owned(name) : v < w})

----------------------------------------------------------------------------
(* Stage order of the pipeline                                             *)

\* every meet-in-the-middle connection of the file has its midpoint
\* declaration in the node list
AllExpanded ==
    Len(config.nodes) = Len(loaded.nodes)
        + (IF IsBsm
           THEN Cardinality({i \in DOMAIN loaded.qconnections :
                                loaded.qconnections[i].type = MEET_IN_THE_MID})
           ELSE 0)
\* the midpoint-to-endpoint map lists, for every quantum channel of the
\* expanded config, its source under its destination
MapComplete ==
    IsBsm => LET qcs == Get(config.qchannels, <<>>)
             IN  \A dst \in {qcs[i].destination : i \in DOMAIN qcs} :
                    /\ dst \in DictKeys(bsm_to_router_map)
                    /\ Len(DictGet(bsm_to_router_map, dst))
                          = Cardinality({i \in DOMAIN qcs : qcs[i].destination = dst})
                    /\ Range(DictGet(bsm_to_router_map, dst))
                          = {qcs[i].source :
                                i \in {j \in DOMAIN qcs : qcs[j].destination = dst}}
\* every declaration of the expanded config has its node object
EveryNodeBuilt == Len(RegistryObjects(nodes)) = Len(config.nodes)
\* every channel the config calls for is installed
AllChannelsInstalled ==
    /\ Ends(qchannels) = DeclaredFromInstantiated(Get(config.qchannels, <<>>))
    /\ Ends(cchannels) = DeclaredFromInstantiated(Get(config.cchannels, <<>>))
                            \o DirectionsFromInstantiated(config.cconnections)
ForwardingState == <<forwarding, link_cost, rp_inits>>

\* C20: the pipeline runs each stage once and in the fixed order of
\* Stages (template resolution, parameter reading, connection expansion,
\* timeline creation, midpoint-to-endpoint mapping, node instantiation,
\* cross-registration, quantum channels, classical channels and
\* connections, forwarding, protocol wiring); no node is instantiated before
\* every auto midpoint declaration is appended and the midpoint-to-endpoint
\* map is complete, no channel object exists before every node object does,
\* and forwarding is computed only after all channels exist.
C20_StageOrder ==
    [][create'.run = create.run =>
       /\ pc' # pc
          => \/ pc' = "failed"
             \/ StageIndex(pc') = StageIndex(pc) + 1
             \/ /\ pc = "add_parameters" /\ pc' = "add_timeline"
                /\ config.qconnections = <<>>
       /\ pc' = pc /\ ~Past("add_protocols") /\ classified' = classified
          => pc = "add_qconnections" /\ qi' = qi + 1
       /\ nodes' # nodes
          => /\ AllExpanded /\ MapComplete
             /\ config' = config /\ bsm_to_router_map' = bsm_to_router_map
       /\ nodes # <<>>
          => config' = config /\ bsm_to_router_map' = bsm_to_router_map
       /\ (qchannels' # qchannels \/ cchannels' # cchannels)
          => EveryNodeBuilt /\ nodes' = nodes
       /\ (qchannels # <<>> \/ cchannels # <<>>)
          => nodes' = nodes
       /\ ForwardingState' # ForwardingState
          => /\ AllChannelsInstalled
             /\ qchannels' = qchannels /\ cchannels' = cchannels
       /\ ForwardingState # <<<<>>, {}, <<>>>>
          => qchannels' = qchannels /\ cchannels' = cchannels
      ]_vars

\* a build ran to its end through an expansion that appended a midpoint,
\* and has nodes, channels of both kinds and forwarding tables
C20_Witness ==
    /\ pc = "done"
    /\ AutoNodes # {}
    /\ bsm_to_router_map # <<>>
    /\ EveryNodeBuilt
    /\ qchannels # <<>> /\ cchannels # <<>>
    /\ forwarding # <<>>

----------------------------------------------------------------------------
(* Construction order of the star family                                   *)

\* the names of the clients the file declares, in declaration order
DeclaredClients ==
    LET cs == SelectSeq(loaded.nodes, LAMBDA n : n.type = CLIENT)
    IN  [i \in DOMAIN cs |-> cs[i].name]
\* the type of the node object registered under a name
TypeOfBuilt(name) == (CHOOSE obj \in NodeObjects : obj.name = name).type

\* C21: in the star family, whatever the declaration order, every client is
\* constructed before any orchestrator, and each orchestrator is constructed
\* with a remote-memory list holding exactly one memory per declared client,
\* in client declaration order.
C21_ClientsBeforeOrchestrators ==
    IsQlan =>
        /\ \A i, j \in DOMAIN tl.entities :
              /\ TypeOfBuilt(tl.entities[i]) = ORCHESTRATOR
              /\ TypeOfBuilt(tl.entities[j]) = CLIENT
              => j < i
        /\ \A obj \in NodeObjects :
              obj.type = ORCHESTRATOR => obj.remote_memories = DeclaredClients

\* a star was built from a file that declares an orchestrator before one of
\* its two clients
C21_Witness ==
    /\ IsQlan /\ pc = "done"
    /\ Len(DeclaredClients) = 2
    /\ \E i, j \in DOMAIN loaded.nodes :
          /\ i < j
          /\ loaded.nodes[i].type = ORCHESTRATOR
          /\ loaded.nodes[j].type = CLIENT
    /\ \E obj \in NodeObjects :
          obj.type = ORCHESTRATOR /\ Len(obj.remote_memories) = 2

----------------------------------------------------------------------------
(* The cost graph                                                          *)

\* the receivers of the installed quantum channels, and the channels
\* recorded for one of them
Recorded == {qchannels[i].receiver : i \in DOMAIN qchannels}
RecordedFor(m) == {i \in DOMAIN qchannels : qchannels[i].receiver = m}
\* the midpoints with exactly two recorded channels
TwoChannelMidpoints == {m \in Recorded : Cardinality(RecordedFor(m)) = 2}
EdgeOf(m) == {qchannels[i].sender : i \in RecordedFor(m)}
EdgeWeightOf(m) ==
    LET i == CHOOSE i \in RecordedFor(m) : TRUE
        j == CHOOSE j \in RecordedFor(m) : j # i
    IN  qchannels[i].distance + qchannels[j].distance
\* the generator is about to run on a BSM family whose declared types are known
GeneratorRuns ==
    /\ pc = "generate_forwarding_table" /\ IsBsm
    /\ \A i \in DOMAIN config.nodes : config.nodes[i].type \in NodeType

\* C22: the cost graph has as nodes exactly the declared non-midpoint names
\* and an edge {a, b} for a midpoint exactly when two channels, one from a
\* and one from b, are recorded for it, weighted with the sum of their
\* distances; a midpoint with any other number of recorded channels
\* contributes no edge and does not make forwarding generation fail.
C22_CostGraph ==
    [][GeneratorRuns
       => /\ pc' # "failed"
          /\ routing = "static" /\ EndpointObjects(nodes) # <<>>
             => LET g == AddWeightedEdges(
                            [nodes |-> GraphNodes(config), weight |-> <<>>],
                            SelectSeq(Costs(qchannels, <<>>),
                                      LAMBDA c : c.key \in TwoChannelMidpoints))
                IN  /\ g.nodes = GraphNodes(config)
                    /\ DOMAIN g.weight = {EdgeOf(m) : m \in TwoChannelMidpoints}
                    /\ \A e \in DOMAIN g.weight :
                          \E m \in TwoChannelMidpoints :
                              EdgeOf(m) = e /\ EdgeWeightOf(m) = g.weight[e]
      ]_vars

----------------------------------------------------------------------------
(* The node registry after a build                                         *)

\* what a declaration fixes of its node object
Identity(n) == [name |-> n.name, type |-> n.type, seed |-> n.seed]
Identities(ns) == [i \in DOMAIN ns |-> Identity(ns[i])]
DeclaredOfType(t) == SelectSeq(config.nodes, LAMBDA n : n.type = t)

\* C23: after a successful run every node declaration, user-declared or
\* auto-generated, has exactly one node object, registered under its declared
\* type and nowhere else, with the declaration's name and seed; the registry
\* holds no object without a declaration.
C23_OneObjectPerDeclaration ==
    pc = "done" =>
        /\ DictKeys(nodes) = {config.nodes[i].type : i \in DOMAIN config.nodes}
        /\ \A t \in DictKeys(nodes) :
              Identities(DictGet(nodes, t)) = Identities(DeclaredOfType(t))
        /\ Len(RegistryObjects(nodes)) = Len(config.nodes)

\* a build with two routers and an auto-generated midpoint ran to its end
C23_Witness ==
    /\ pc = "done" /\ IsBsm
    /\ AutoNodes # {}
    /\ BSM_NODE \in DictKeys(nodes)
    /\ \E t \in DictKeys(nodes) : Len(DictGet(nodes, t)) >= 2

----------------------------------------------------------------------------
(* Initialisation of the distributed routing components                    *)

Initialised == {rp_inits[i].router : i \in DOMAIN rp_inits}
MidpointNames ==
    {o.name : o \in {x \in NodeObjects : x.type \in MIDPOINT_NODE_TYPES}}

\* C24: under distributed routing each non-midpoint node's routing component
\* is initialised exactly once, and only after all of that node's own link
\* costs have been recorded; midpoint nodes are never seeded or initialised.
C24_InitAfterSeeding ==
    (IsBsm /\ routing = "distributed") =>
        /\ \A i, j \in DOMAIN rp_inits :
              rp_inits[i].router = rp_inits[j].router => i = j
        /\ \A i \in DOMAIN rp_inits :
              rp_inits[i].link_cost = LinkCostOf(rp_inits[i].router)
        /\ Initialised \subseteq EndpointNames
        /\ Past("generate_forwarding_table") => Initialised = EndpointNames
        /\ \A t \in link_cost : t[1] \in EndpointNames
        /\ \A m \in MidpointNames \ EndpointNames :
              m \notin Initialised /\ LinkCostOf(m) = {}

\* generation ended on a topology with a midpoint where a router that has a
\* link cost to another router and one that has none were both initialised
C24_Witness ==
    /\ IsBsm /\ routing = "distributed" /\ Past("generate_forwarding_table")
    /\ MidpointNames # {}
    /\ \E i, j \in DOMAIN rp_inits :
          /\ \E t \in rp_inits[i].link_cost : t[1] \in EndpointNames \ {rp_inits[i].router}
          /\ rp_inits[j].link_cost = {}

----------------------------------------------------------------------------
(* Midpoints and routing state                                             *)

\* the names declared with a midpoint type, by the file or by the expansion
DeclaredMidpoints ==
    {config.nodes[i].name :
        i \in {j \in DOMAIN config.nodes : config.nodes[j].type \in MIDPOINT_NODE_TYPES}}

\* C25: no forwarding rule or link cost is installed on a midpoint node, and
\* no midpoint name appears as a destination, a next hop or a neighbour key
\* in any node's routing state.
C25_NoMidpointInRouting ==
    /\ DOMAIN forwarding \cap DeclaredMidpoints = {}
    /\ \A s \in DOMAIN forwarding :
          /\ DOMAIN forwarding[s] \cap DeclaredMidpoints = {}
          /\ \A d \in DOMAIN forwarding[s] : forwarding[s][d] \notin DeclaredMidpoints
    /\ \A t \in link_cost : t[1] \notin DeclaredMidpoints /\ t[2] \notin DeclaredMidpoints
    /\ \A i \in DOMAIN rp_inits : rp_inits[i].router \notin DeclaredMidpoints

\* a rule whose next hop is not the destination was installed on a topology
\* that has midpoints
C25_Witness ==
    /\ Past("generate_forwarding_table")
    /\ DeclaredMidpoints # {}
    /\ \E s \in DOMAIN forwarding : \E d \in DOMAIN forwarding[s] :
          forwarding[s][d] # d

----------------------------------------------------------------------------
(* The import-time classification check                                    *)

\* every member of NodeType is in exactly one of the two sets
ExactlyOnce(c) ==
    \A t \in NodeType : (t \in c.midpoint) # (t \in c.endpoint)

\* C26: the startup check accepts a classification only if every NodeType
\* member belongs to exactly one of MIDPOINT_NODE_TYPES and
\* ENDPOINT_NODE_TYPES; a member in neither set, or in both, is rejected
\* with an error at import time.
C26_ExactlyOneClass ==
    classified.outcome # "" =>
        /\ classified.outcome = "accepted" => ExactlyOnce(classified)
        /\ ~ExactlyOnce(classified) => classified.outcome = "TypeError"

----------------------------------------------------------------------------
(* Hop-by-hop forwarding                                                   *)

\* the nodes visited from s towards d by following the installed next hops,
\* for n hops at most
RECURSIVE Travel(_, _, _)
Travel(s, d, n) ==
    IF s = d \/ n = 0 \/ s \notin DOMAIN forwarding THEN <<s>>
    ELSE IF d \notin DOMAIN forwarding[s] THEN <<s>>
    ELSE <<s>> \o Travel(forwarding[s][d], d, n - 1)
Travelled(s, d) == Travel(s, d, Cardinality(CostGraph.nodes))
IsWalk(g, p) == \A i \in 1..(Len(p) - 1) : {p[i], p[i + 1]} \in DOMAIN g.weight
PositiveCosts(g) == \A e \in DOMAIN g.weight : g.weight[e] > 0

\* C27: under centralized routing with strictly positive link costs,
\* following the installed next hops from a non-midpoint node s for a
\* reachable destination d arrives at d without visiting a node twice, and
\* the cost travelled is the shortest-path distance from s to d, whichever
\* equal-cost path each node's computation picked.
C27_HopByHop ==
    (IsBsm /\ routing = "static" /\ Past("generate_forwarding_table")
        /\ PositiveCosts(CostGraph))
    => LET g == CostGraph
       IN  \A s \in GraphNodes(config) : \A d \in GraphNodes(config) \ {s} :
              Reachable(g, s, d)
              => LET p == Travelled(s, d)
                 IN  /\ p[1] = s /\ p[Len(p)] = d
                     /\ \A i, j \in DOMAIN p : p[i] = p[j] => i = j
                     /\ IsWalk(g, p)
                     /\ PathWeight(g, p) = Distance(g, s, d)

\* two routes of equal cost join s to d, the hops installed take the one
\* through a third node, and another node reaches d in one hop
C27_Witness ==
    /\ IsBsm /\ routing = "static" /\ Past("generate_forwarding_table")
    /\ PositiveCosts(CostGraph)
    /\ \E s, d \in GraphNodes(config) :
          /\ s # d /\ Reachable(CostGraph, s, d)
          /\ Cardinality(ShortestPaths(CostGraph, s, d)) >= 2
          /\ Len(Travelled(s, d)) = 3
          /\ \E x \in GraphNodes(config) \ {s, d} : Len(Travelled(x, d)) = 2

----------------------------------------------------------------------------
(* Parallel midpoints                                                      *)

\* the total distances of the midpoints that join r to o
JoinCosts(r, o) == {JoinCost(m) : m \in {x \in Midpoints : Joins(x, r, o)}}

\* C28: when two or more midpoints join the same pair of endpoints with
\* different total distances, the link cost used between that pair (the
\* cost-graph edge weight under centralized routing, the link-cost entry
\* under distributed routing) is the smallest of them, whatever the order
\* in which the connections or channels are declared.
C28_SmallestParallelCost ==
    (IsBsm /\ Past("generate_forwarding_table"))
    => \A r \in EndpointNames : \A o \in EndpointNames \ {r} :
          Cardinality(JoinCosts(r, o)) >= 2
          => IF routing = "static"
             THEN CostGraph.weight[{r, o}] = Least(JoinCosts(r, o))
             ELSE {t[2] : t \in {x \in LinkCostOf(r) : x[1] = o}}
                     = {Least(JoinCosts(r, o))}

----------------------------------------------------------------------------
(* CreateTopo and the caller's argument objects                            *)

\* C29: constructing a CreateTopo leaves the caller's nodes, qchannels and
\* cchannels lists unchanged, so constructing twice from the same argument
\* objects yields two topologies with the same node names, the same
\* midpoint-to-endpoint map and the same number of channels.
C29_CallerListsUnchanged ==
    create.entry = "CreateTopo" =>
        /\ config.nodes = create.args.nodes
        /\ CallersList(create.args.qchannels, config.qchannels)
              = create.args.qchannels
        /\ CallersList(create.args.cchannels, config.cchannels)
              = create.args.cchannels
        /\ (create.run = 2 /\ pc \in {"done", "failed"})
              => pc = "done" /\ Summary = create.first

\* C30: on a DQC topology whose meet-in-the-middle connections produced
\* midpoint nodes, infer_qubit_to_node gives wires only to the nodes of the
\* loaded declaration, and it returns a map exactly when the n_data of
\* those declared nodes sums to total_wires: a generated midpoint receives
\* no wire and adds nothing to the sum.
C30_WiresOnlyToDeclaredNodes ==
    (inferred.op = "infer_qubit_to_node" /\ AutoNodes # {}) =>
        LET declared == loaded.nodes
        IN  /\ \A i \in DOMAIN inferred.result :
                  inferred.result[i].val \in {declared[j].name : j \in DOMAIN declared}
            /\ inferred.err = ""
                  <=> DataUpTo(declared, Len(declared)) = inferred.total_wires

====
